---- MODULE Spec2Model ----
(***************************************************************************)
(* FBXLoader (src/src/loaders/FBXLoader.ts): FBXLoader.parse and the       *)
(* reconstruction stages of FBXTreeParser, as a state machine over one     *)
(* parse call.  Every stage of FBXTreeParser.parse is one action; an       *)
(* exception thrown by a stage ends the call in pc = "error".              *)
(*                                                                         *)
(* Object IDs are small integers.  Catalog sections (fbxTree.Objects.X)    *)
(* are functions from the IDs they hold to node records; a JS for-in over  *)
(* such a section visits integer-like keys in ascending order, and so do   *)
(* the loops here.  Scene nodes and materials are JS objects with          *)
(* identity: they live in the heaps nodes and matHeap and are referred to  *)
(* by handle (their index); handle 0 is null / undefined.                  *)
(***************************************************************************)
EXTENDS Integers, Sequences, FiniteSets, TLC

VARIABLES
  FBXBuffer,    \* the argument of FBXLoader.parse
  pc,           \* the point the parse call has reached
  ran,          \* the decoders and stages the call has run so far, in order
  fbxTree,      \* module-level fbxTree
  connections,  \* module-level connections (the Map of parseConnections)
  sceneGraph,   \* module-level sceneGraph: a handle into nodes
  images,       \* parseImages' result
  textureMap,   \* parseTextures' result
  materialMap,  \* parseMaterials' result: material ID -> handle into matHeap
  deformers,    \* parseDeformers' result: [skeletons, morphTargets]
  geometryMap,  \* GeometryParser's result
  modelMap,     \* parseModels' Map: model ID -> handle into nodes
  cursor,       \* position of the loop of parseModels over the Model section
  nodes,        \* heap of scene nodes (Object3D and subclasses)
  matHeap,      \* heap of materials
  result,       \* how the call ended: returned scene or thrown error
  suspended,    \* the locals of a second parse call that waits between two
                \* of its stages while this one runs; pc "none" without one
  loadCall      \* the FBXLoader.load call whose callback runs this parse: its
                \* callbacks and what it has invoked; stage "none" without one

vars == <<FBXBuffer, pc, ran, fbxTree, connections, sceneGraph, images,
          textureMap, materialMap, deformers, geometryMap, modelMap, cursor,
          nodes, matHeap, result, suspended, loadCall>>

----------------------------------------------------------------------------
(* Bounds of the model *)

MaxHead == 2        \* chunks in the head of a buffer
MaxConns == 3       \* raw connection triples in the Connections section
MaxMatConns == 2    \* connections among textures, materials and the model
MaxMeshChildren == 3  \* connection-graph children of the Mesh model
MaxSceneConns == 3  \* connections among two models and the scene root
MaxSkinChildren == 3  \* connection-graph children of the Skin deformer
MaxBoneParents == 2   \* connection-graph parents of the first model
MaxMorphChildren == 3  \* connection-graph children of the BlendShape deformer
MaxModelParents == 3   \* connection-graph parents of the first of three models
MaxAttrChildren == 3   \* connection-graph children of the Camera or Light model
MaxSkinParents == 2    \* connection-graph parents of the Skin deformer

----------------------------------------------------------------------------
(* Generic helpers *)

\* rawConnection[2] of a connection that carries no relationship name
Undefined == "undefined"

Null == 0

EmptyMap == <<>>

Range(s) == {s[i] : i \in DOMAIN s}

SeqsUpTo(S, n) == UNION {[1..k -> S] : k \in 0..n}

\* Array.prototype.filter
RECURSIVE SelectSeqBy(_, _)
SelectSeqBy(s, keep) ==
  IF s = <<>> THEN <<>>
  ELSE LET rest == SelectSeqBy(Tail(s), keep)
       IN IF Head(s) \in keep THEN <<Head(s)>> \o rest ELSE rest

\* for-in over an object with integer-like keys: ascending key order
RECURSIVE KeysAscending(_)
KeysAscending(S) ==
  IF S = {} THEN <<>>
  ELSE LET m == CHOOSE x \in S : \A y \in S : x <= y
       IN <<m>> \o KeysAscending(S \ {m})

----------------------------------------------------------------------------
(* The input: a buffer and the tree it encodes *)

\* A buffer is a head of chunks followed by a body.  The head holds what the
\* format sniffer looks at: the binary magic header, the ASCII top-level
\* marker, a declared FBX version.  The body is the content the decoders
\* turn into the generic tree.
MagicChunk == [tag |-> "magic", v |-> 0]
MarkerChunk == [tag |-> "marker", v |-> 0]
VersionChunk(n) == [tag |-> "version", v |-> n]

Versions == {6000, 6999, 7000, 7400}

Chunks == {MagicChunk, MarkerChunk} \cup {VersionChunk(n) : n \in Versions}

\* A tree without any section
EmptyTree ==
  [hasConnections |-> FALSE, connections |-> <<>>,
   Video |-> EmptyMap, Texture |-> EmptyMap, Material |-> EmptyMap,
   Deformer |-> EmptyMap, Geometry |-> EmptyMap, Model |-> EmptyMap,
   NodeAttribute |-> EmptyMap, AmbientColor |-> "absent",
   animations |-> <<>>, tgaHandler |-> FALSE]

NoTree == [undefined |-> TRUE]

----------------------------------------------------------------------------
(* Format sniffer and decoders *)

isFbxFormatBinary(buffer) ==
  Len(buffer.head) >= 1 /\ buffer.head[1] = MagicChunk

convertArrayBufferToString(buffer) == buffer

isFbxFormatASCII(text) ==
  \E i \in DOMAIN text.head : text.head[i] = MarkerChunk

VersionPositions(text) ==
  {i \in DOMAIN text.head : text.head[i].tag = "version"}

hasFbxVersion(text) == VersionPositions(text) # {}

\* the first FBXVersion field of the text
getFbxVersion(text) ==
  LET i == CHOOSE k \in VersionPositions(text) :
             \A j \in VersionPositions(text) : k <= j
  IN text.head[i].v

BinaryVersionFloor == 6400

\* BinaryParser.parse: the version of the binary header is enforced at the
\* decoder boundary
BinaryParserParse(buffer) ==
  IF ~hasFbxVersion(buffer)
  THEN [threw |-> TRUE, error |-> "BinaryParseError", tree |-> NoTree]
  ELSE IF getFbxVersion(buffer) < BinaryVersionFloor
  THEN [threw |-> TRUE, error |-> "UnsupportedVersionError", tree |-> NoTree]
  ELSE [threw |-> FALSE, error |-> "", tree |-> buffer.body]

TextParserParse(text) ==
  [threw |-> FALSE, error |-> "", tree |-> text.body]

----------------------------------------------------------------------------
(* FBXLoader.parse *)

AsciiVersionFloor == 7000

NoResult == [status |-> "none", error |-> "", scene |-> Null]

Threw(kind) == [status |-> "threw", error |-> kind, scene |-> Null]

Returned(scene) == [status |-> "returned", error |-> "", scene |-> scene]

\* LoaderDecode that takes any text for ASCII FBX
LoaderDecodeNoMarkerCheck(buffer) ==
  IF isFbxFormatBinary(buffer)
  THEN [ran |-> <<"BinaryParser">>] @@ BinaryParserParse(buffer)
  ELSE LET FBXText == convertArrayBufferToString(buffer)
       IN IF ~hasFbxVersion(FBXText)
          THEN [ran |-> <<>>, threw |-> TRUE, error |-> "VersionNotFound",
                tree |-> NoTree]
          ELSE IF getFbxVersion(FBXText) < AsciiVersionFloor
          THEN [ran |-> <<>>, threw |-> TRUE,
                error |-> "UnsupportedVersionError", tree |-> NoTree]
          ELSE [ran |-> <<"TextParser">>] @@ TextParserParse(FBXText)

\* LoaderDecode that rejects the floor version itself
LoaderDecodeFloorRejected(buffer) ==
  IF isFbxFormatBinary(buffer)
  THEN [ran |-> <<"BinaryParser">>] @@ BinaryParserParse(buffer)
  ELSE LET FBXText == convertArrayBufferToString(buffer)
       IN IF ~isFbxFormatASCII(FBXText)
          THEN [ran |-> <<>>, threw |-> TRUE, error |-> "FormatError",
                tree |-> NoTree]
          ELSE IF ~hasFbxVersion(FBXText)
          THEN [ran |-> <<>>, threw |-> TRUE, error |-> "VersionNotFound",
                tree |-> NoTree]
          ELSE IF getFbxVersion(FBXText) <= AsciiVersionFloor
          THEN [ran |-> <<>>, threw |-> TRUE,
                error |-> "UnsupportedVersionError", tree |-> NoTree]
          ELSE [ran |-> <<"TextParser">>] @@ TextParserParse(FBXText)

\* Lines 1281-1295: what the head of FBXLoader.parse does with the buffer:
\* the decoder it runs, if any, and the tree or the error that comes out
LoaderDecode(buffer) ==
  IF isFbxFormatBinary(buffer)
  THEN [ran |-> <<"BinaryParser">>] @@ BinaryParserParse(buffer)
  ELSE LET FBXText == convertArrayBufferToString(buffer)
       IN IF ~isFbxFormatASCII(FBXText)
          THEN [ran |-> <<>>, threw |-> TRUE, error |-> "FormatError",
                tree |-> NoTree]
          ELSE IF ~hasFbxVersion(FBXText)
          THEN [ran |-> <<>>, threw |-> TRUE, error |-> "VersionNotFound",
                tree |-> NoTree]
          ELSE IF getFbxVersion(FBXText) < AsciiVersionFloor
          THEN [ran |-> <<>>, threw |-> TRUE,
                error |-> "UnsupportedVersionError", tree |-> NoTree]
          ELSE [ran |-> <<"TextParser">>] @@ TextParserParse(FBXText)

----------------------------------------------------------------------------
(* FBXTreeParser.parseConnections *)

EmptyEntry == [parents |-> <<>>, children |-> <<>>]

Relationship(id, relationship) == [ID |-> id, relationship |-> relationship]

\* Map.prototype.has
Has(map, key) == key \in DOMAIN map

\* Map.prototype.set
MapSet(map, key, value) ==
  IF key \in DOMAIN map THEN [map EXCEPT ![key] = value]
  ELSE map @@ (key :> value)

\* AddConnection without the insertion of a missing entry for toID: the child
\* edge of an ID that has no entry yet is dropped
AddConnectionNoHeal(connectionMap, rawConnection) ==
  LET fromID == rawConnection[1]
      toID == rawConnection[2]
      relationship == rawConnection[3]
      m1 == IF ~Has(connectionMap, fromID)
            THEN MapSet(connectionMap, fromID, EmptyEntry)
            ELSE connectionMap
      m2 == [m1 EXCEPT ![fromID].parents =
                         Append(@, Relationship(toID, relationship))]
  IN IF Has(m2, toID)
     THEN [m2 EXCEPT ![toID].children =
                       Append(@, Relationship(fromID, relationship))]
     ELSE m2

\* AddConnection that skips an edge the list already holds
AddConnectionDedup(connectionMap, rawConnection) ==
  LET fromID == rawConnection[1]
      toID == rawConnection[2]
      relationship == rawConnection[3]
      m1 == IF ~Has(connectionMap, fromID)
            THEN MapSet(connectionMap, fromID, EmptyEntry)
            ELSE connectionMap
      m2 == [m1 EXCEPT ![fromID].parents =
                         IF Relationship(toID, relationship) \in Range(@)
                         THEN @
                         ELSE Append(@, Relationship(toID, relationship))]
      m3 == IF ~Has(m2, toID) THEN MapSet(m2, toID, EmptyEntry) ELSE m2
  IN [m3 EXCEPT ![toID].children =
                  IF Relationship(fromID, relationship) \in Range(@)
                  THEN @
                  ELSE Append(@, Relationship(fromID, relationship))]

\* the body of rawConnections.forEach (lines 83-107)
AddConnection(connectionMap, rawConnection) ==
  LET fromID == rawConnection[1]
      toID == rawConnection[2]
      relationship == rawConnection[3]
      m1 == IF ~Has(connectionMap, fromID)
            THEN MapSet(connectionMap, fromID, EmptyEntry)
            ELSE connectionMap
      m2 == [m1 EXCEPT ![fromID].parents =
                         Append(@, Relationship(toID, relationship))]
      m3 == IF ~Has(m2, toID) THEN MapSet(m2, toID, EmptyEntry) ELSE m2
  IN [m3 EXCEPT ![toID].children =
                  Append(@, Relationship(fromID, relationship))]

RECURSIVE AddConnections(_, _)
AddConnections(connectionMap, rawConnections) ==
  IF rawConnections = <<>> THEN connectionMap
  ELSE AddConnections(AddConnection(connectionMap, Head(rawConnections)),
                      Tail(rawConnections))

parseConnections(tree) ==
  IF tree.hasConnections THEN AddConnections(EmptyMap, tree.connections)
  ELSE EmptyMap

\* connections.get(id): the entry, or undefined
HasEntry(conns, id) == id \in DOMAIN conns

----------------------------------------------------------------------------
(* FBXTreeParser.parseImages, parseTextures, parseTexture, loadTexture *)

\* images[id] is the file name of the Video node, or the blob/data URI built
\* from its embedded content
parseImages(tree) ==
  [id \in DOMAIN tree.Video |->
     IF tree.Video[id].Content THEN "blob" ELSE "file"]

Absent == [present |-> FALSE, value |-> 0]

Present(v) == [present |-> TRUE, value |-> v]

WrapOf(value) == IF value = 0 THEN "RepeatWrapping" ELSE "ClampToEdgeWrapping"

\* lines 272-314.  Throws a TypeError when the texture has no entry in the
\* connection graph (line 278) or no FileName (line 290).
loadTexture(textureNode, imgs, conns, tgaHandler) ==
  IF ~HasEntry(conns, textureNode.id) THEN [threw |-> TRUE, texture |-> <<>>]
  ELSE
    LET children == conns[textureNode.id].children
        fileName == IF Len(children) > 0 /\ children[1].ID \in DOMAIN imgs
                    THEN imgs[children[1].ID] ELSE Undefined
    IN IF textureNode.FileName = "absent"
       THEN [threw |-> TRUE, texture |-> <<>>]
       ELSE
         LET placeholder ==
               \/ textureNode.FileName = "psd"
               \/ textureNode.FileName = "tga" /\ ~tgaHandler
         IN [threw |-> FALSE,
             texture |->
               [image |-> IF placeholder THEN Undefined ELSE fileName,
                loader |-> IF placeholder THEN "none"
                           ELSE IF textureNode.FileName = "tga"
                           THEN "tga" ELSE "textureLoader"]]

\* parseTexture that decides both wraps from WrapModeU
parseTextureWrapFromU(textureNode, imgs, conns, tgaHandler) ==
  LET loaded == loadTexture(textureNode, imgs, conns, tgaHandler)
      wrapModeU == textureNode.WrapModeU
      valueU == IF wrapModeU.present THEN wrapModeU.value ELSE 0
  IN IF loaded.threw THEN [threw |-> TRUE, texture |-> <<>>]
     ELSE [threw |-> FALSE,
           texture |->
             [ID |-> textureNode.id,
              image |-> loaded.texture.image,
              loader |-> loaded.texture.loader,
              wrapS |-> WrapOf(valueU),
              wrapT |-> WrapOf(valueU),
              repeat |-> IF textureNode.Scaling.present
                         THEN textureNode.Scaling.value ELSE <<1, 1>>,
              encoding |-> "LinearEncoding",
              mapping |-> "UVMapping"]]

\* lines 238-264
parseTexture(textureNode, imgs, conns, tgaHandler) ==
  LET loaded == loadTexture(textureNode, imgs, conns, tgaHandler)
      wrapModeU == textureNode.WrapModeU
      wrapModeV == textureNode.WrapModeV
      valueU == IF wrapModeU.present THEN wrapModeU.value ELSE 0
      valueV == IF wrapModeV.present THEN wrapModeV.value ELSE 0
  IN IF loaded.threw THEN [threw |-> TRUE, texture |-> <<>>]
     ELSE [threw |-> FALSE,
           texture |->
             [ID |-> textureNode.id,
              image |-> loaded.texture.image,
              loader |-> loaded.texture.loader,
              wrapS |-> WrapOf(valueU),
              wrapT |-> WrapOf(valueV),
              repeat |-> IF textureNode.Scaling.present
                         THEN textureNode.Scaling.value ELSE <<1, 1>>,
              encoding |-> "LinearEncoding",
              mapping |-> "UVMapping"]]

\* lines 218-230
parseTextures(tree, imgs, conns) ==
  LET parsed == [id \in DOMAIN tree.Texture |->
                   parseTexture(tree.Texture[id], imgs, conns, tree.tgaHandler)]
  IN IF \E id \in DOMAIN parsed : parsed[id].threw
     THEN [threw |-> TRUE, map |-> EmptyMap]
     ELSE [threw |-> FALSE,
           map |-> [id \in DOMAIN parsed |-> parsed[id].texture]]

----------------------------------------------------------------------------
(* FBXTreeParser.parseMaterials, parseMaterial, parseParameters, getTexture *)

\* the texture channels of a material; 0 is "not set" (or set to undefined)
NoChannels ==
  [bumpMap |-> Null, aoMap |-> Null, map |-> Null, displacementMap |-> Null,
   emissiveMap |-> Null, normalMap |-> Null, envMap |-> Null,
   specularMap |-> Null, alphaMap |-> Null]

\* the switch of lines 451-504: the channel a relationship label assigns
ChannelOf(type) ==
  CASE type = "Bump" -> "bumpMap"
    [] type = "Maya|TEX_ao_map" -> "aoMap"
    [] type \in {"DiffuseColor", "Maya|TEX_color_map"} -> "map"
    [] type = "DisplacementColor" -> "displacementMap"
    [] type = "EmissiveColor" -> "emissiveMap"
    [] type \in {"NormalMap", "Maya|TEX_normal_map"} -> "normalMap"
    [] type = "ReflectionColor" -> "envMap"
    [] type = "SpecularColor" -> "specularMap"
    [] type \in {"TransparentColor", "TransparencyFactor"} -> "alphaMap"
    [] OTHER -> "none"

\* the channels whose texture gets a property written right after the lookup
\* (encoding, mapping): the write throws when the lookup gave undefined
WritesTexture == {"map", "emissiveMap", "envMap", "specularMap"}

\* getTexture (lines 516-524) for a tree without LayeredTexture section:
\* textureMap.get(id), 0 for undefined
getTexture(textures, id) == IF id \in DOMAIN textures THEN id ELSE Null

\* one iteration of connections.get(ID).children.forEach (lines 448-505)
ParameterChild(acc, child) ==
  LET channel == ChannelOf(child.relationship)
      tex == getTexture(acc.textures, child.ID)
  IN IF acc.threw \/ channel = "none" THEN acc
     ELSE IF channel \in WritesTexture /\ tex = Null
     THEN [acc EXCEPT !.threw = TRUE]
     ELSE [acc EXCEPT
             !.channels = [@ EXCEPT ![channel] = tex],
             !.transparent = IF channel = "alphaMap" THEN TRUE ELSE @,
             !.textures =
               IF channel \in WritesTexture
               THEN [@ EXCEPT
                       ![tex].encoding = "sRGBEncoding",
                       ![tex].mapping =
                         IF channel = "envMap"
                         THEN "EquirectangularReflectionMapping" ELSE @]
               ELSE @]

RECURSIVE ParameterChildren(_, _)
ParameterChildren(acc, children) ==
  IF children = <<>> THEN acc
  ELSE ParameterChildren(ParameterChild(acc, Head(children)), Tail(children))

\* lines 390-508; the scalar parameters (colours, factors) are copied from the
\* node as they are and are left out
parseParameters(materialNode, textures, ID, conns) ==
  ParameterChildren(
    [threw |-> FALSE, channels |-> NoChannels, transparent |-> FALSE,
     textures |-> textures],
    conns[ID].children)

\* the material class of a shading model name (switch of lines 363-374)
\* String.prototype.toLowerCase on the shading model names of the inputs
ToLowerCase(str) ==
  CASE str \in {"Phong", "PHONG"} -> "phong"
    [] str \in {"Lambert", "LAMBERT"} -> "lambert"
    [] str = "Unknown" -> "unknown"
    [] OTHER -> str

MaterialClass(type) ==
  CASE ToLowerCase(type) = "phong" -> "MeshPhongMaterial"
    [] ToLowerCase(type) = "lambert" -> "MeshLambertMaterial"
    [] OTHER -> "MeshPhongMaterial"

NewMaterial(class, source, channels, transparent, color) ==
  [type |-> class, source |-> source, channels |-> channels,
   transparent |-> transparent, color |-> color,
   vertexColors |-> FALSE, skinning |-> FALSE, morphTargets |-> FALSE,
   cloneOf |-> Null]

\* parseMaterial without the test of line 357: a material without entry in
\* the connection graph is built like one without children
parseMaterialKeepUnused(materialNode, textures, conns) ==
  LET ID == materialNode.id
      type == materialNode.ShadingModel
      parameters == IF Has(conns, ID)
                    THEN parseParameters(materialNode, textures, ID, conns)
                    ELSE [threw |-> FALSE, channels |-> NoChannels,
                          transparent |-> FALSE, textures |-> textures]
  IN IF parameters.threw \/ ~type.present
     THEN [threw |-> TRUE, null |-> FALSE, material |-> <<>>,
           textures |-> textures]
     ELSE [threw |-> FALSE, null |-> FALSE,
           material |-> NewMaterial(MaterialClass(type.value), ID,
                                    parameters.channels,
                                    parameters.transparent, "node"),
           textures |-> parameters.textures]

\* lines 346-380: null, a thrown TypeError, or a material; textures is the
\* texture registry with the writes of parseParameters
parseMaterial(materialNode, textures, conns) ==
  LET ID == materialNode.id
      \* ShadingModel is a string or a property object wrapping one
      \* (lines 349-354); value is the string in both forms
      type == materialNode.ShadingModel
  IN IF ~Has(conns, ID)
     THEN [threw |-> FALSE, null |-> TRUE, material |-> <<>>,
           textures |-> textures]
     ELSE
       LET parameters == parseParameters(materialNode, textures, ID, conns)
       IN IF parameters.threw \/ ~type.present
          THEN [threw |-> TRUE, null |-> FALSE, material |-> <<>>,
                textures |-> textures]
          ELSE [threw |-> FALSE, null |-> FALSE,
                material |-> NewMaterial(MaterialClass(type.value), ID,
                                         parameters.channels,
                                         parameters.transparent, "node"),
                textures |-> parameters.textures]

\* one iteration of the for-in of parseMaterials (lines 328-332)
MaterialStep(acc, nodeID, tree, conns) ==
  IF acc.threw THEN acc
  ELSE
    LET parsed == parseMaterial(tree.Material[nodeID], acc.textures, conns)
    IN IF parsed.threw THEN [acc EXCEPT !.threw = TRUE]
       ELSE IF parsed.null THEN acc
       ELSE [acc EXCEPT
               !.heap = Append(@, parsed.material),
               !.map = MapSet(@, nodeID, Len(acc.heap) + 1),
               !.textures = parsed.textures]

RECURSIVE MaterialSteps(_, _, _, _)
MaterialSteps(acc, nodeIDs, tree, conns) ==
  IF nodeIDs = <<>> THEN acc
  ELSE MaterialSteps(MaterialStep(acc, Head(nodeIDs), tree, conns),
                     Tail(nodeIDs), tree, conns)

\* lines 321-336
parseMaterials(tree, textures, conns, heap) ==
  MaterialSteps(
    [threw |-> FALSE, map |-> EmptyMap, heap |-> heap, textures |-> textures],
    KeysAscending(DOMAIN tree.Material), tree, conns)

----------------------------------------------------------------------------
(* FBXTreeParser.parseDeformers, parseSkeleton, parseMorphTargets *)

\* the forEach body of parseSkeleton without the test of line 590: every
\* Deformer child becomes a raw bone
SkeletonChildAnyKind(acc, child, deformerNodes) ==
  IF acc.threw THEN acc
  ELSE IF child.ID \notin DOMAIN deformerNodes THEN [acc EXCEPT !.threw = TRUE]
  ELSE
    LET boneNode == deformerNodes[child.ID]
    IN IF ~boneNode.TransformLink THEN [acc EXCEPT !.threw = TRUE]
       ELSE IF boneNode.Indexes /\ ~boneNode.Weights
       THEN [acc EXCEPT !.threw = TRUE]
       ELSE [acc EXCEPT
               !.rawBones = Append(@, [ID |-> child.ID,
                                       weighted |-> boneNode.Indexes])]

\* one iteration of relationships.children.forEach (lines 587-607).  Throws a
\* TypeError when the child is no Deformer node (boneNode undefined), when a
\* Cluster has no TransformLink, or has Indexes without Weights.
SkeletonChild(acc, child, deformerNodes) ==
  IF acc.threw THEN acc
  ELSE IF child.ID \notin DOMAIN deformerNodes THEN [acc EXCEPT !.threw = TRUE]
  ELSE
    LET boneNode == deformerNodes[child.ID]
    IN IF boneNode.attrType # "Cluster" THEN acc
       ELSE IF ~boneNode.TransformLink THEN [acc EXCEPT !.threw = TRUE]
       ELSE IF boneNode.Indexes /\ ~boneNode.Weights
       THEN [acc EXCEPT !.threw = TRUE]
       ELSE [acc EXCEPT
               !.rawBones = Append(@, [ID |-> child.ID,
                                       weighted |-> boneNode.Indexes])]

RECURSIVE SkeletonChildren(_, _, _)
SkeletonChildren(acc, children, deformerNodes) ==
  IF children = <<>> THEN acc
  ELSE SkeletonChildren(SkeletonChild(acc, Head(children), deformerNodes),
                        Tail(children), deformerNodes)

\* lines 584-613
parseSkeleton(relationships, deformerNodes) ==
  LET walked == SkeletonChildren([threw |-> FALSE, rawBones |-> <<>>],
                                 relationships.children, deformerNodes)
  IN [threw |-> walked.threw,
      skeleton |-> [rawBones |-> walked.rawBones, bones |-> <<>>,
                    ID |-> Null, geometryID |-> Null]]

\* the children without a relationship name (filter of lines 638-640)
RECURSIVE Unlabelled(_)
Unlabelled(children) ==
  IF children = <<>> THEN <<>>
  ELSE IF Head(children).relationship = Undefined
  THEN <<Head(children)>> \o Unlabelled(Tail(children))
  ELSE Unlabelled(Tail(children))

\* one iteration of the for loop of lines 624-643; returned marks the early
\* return of line 636, which ends the function with undefined
MorphTargetChild(acc, child, deformerNodes, conns) ==
  IF acc.threw \/ acc.returned THEN acc
  ELSE IF child.ID \notin DOMAIN deformerNodes THEN [acc EXCEPT !.threw = TRUE]
  ELSE
    LET morphTargetNode == deformerNodes[child.ID]
    IN IF ~morphTargetNode.FullWeights THEN [acc EXCEPT !.threw = TRUE]
       ELSE IF morphTargetNode.attrType # "BlendShapeChannel"
       THEN [acc EXCEPT !.returned = TRUE]
       ELSE IF ~HasEntry(conns, child.ID)
       THEN [acc EXCEPT !.threw = TRUE]
       ELSE
         LET geos == Unlabelled(conns[child.ID].children)
         IN IF geos = <<>> THEN [acc EXCEPT !.threw = TRUE]
            ELSE [acc EXCEPT
                    !.rawMorphTargets =
                      Append(@, [id |-> morphTargetNode.id,
                                 geoID |-> geos[1].ID])]

RECURSIVE MorphTargetChildren(_, _, _, _)
MorphTargetChildren(acc, children, deformerNodes, conns) ==
  IF children = <<>> THEN acc
  ELSE MorphTargetChildren(
         MorphTargetChild(acc, Head(children), deformerNodes, conns),
         Tail(children), deformerNodes, conns)

\* lines 621-646: defined is FALSE when the function returned undefined
parseMorphTargets(relationships, deformerNodes, conns) ==
  LET walked == MorphTargetChildren(
                  [threw |-> FALSE, returned |-> FALSE,
                   rawMorphTargets |-> <<>>],
                  relationships.children, deformerNodes, conns)
  IN [threw |-> walked.threw,
      rawTargets |-> [defined |-> ~walked.returned,
                      list |-> IF walked.returned THEN <<>>
                               ELSE walked.rawMorphTargets]]

NoDeformers == [skeletons |-> EmptyMap, morphTargets |-> EmptyMap]

\* one iteration of the for-in of parseDeformers (lines 538-567).  A Skin or
\* BlendShape deformer without connection-graph entry, and a Skin without
\* parent connection (line 550), throw a TypeError.
DeformerStep(acc, nodeID, tree, conns) ==
  IF acc.threw THEN acc
  ELSE
    LET deformerNode == tree.Deformer[nodeID]
    IN IF deformerNode.attrType = "Skin"
       THEN
         IF ~HasEntry(conns, nodeID) THEN [acc EXCEPT !.threw = TRUE]
         ELSE
           LET relationships == conns[nodeID]
               parsed == parseSkeleton(relationships, tree.Deformer)
           IN IF parsed.threw \/ relationships.parents = <<>>
              THEN [acc EXCEPT !.threw = TRUE]
              ELSE [acc EXCEPT
                      !.skeletons =
                        MapSet(@, nodeID,
                               [parsed.skeleton EXCEPT
                                  !.ID = nodeID,
                                  !.geometryID = relationships.parents[1].ID])]
       ELSE IF deformerNode.attrType = "BlendShape"
       THEN
         IF ~HasEntry(conns, nodeID) THEN [acc EXCEPT !.threw = TRUE]
         ELSE
           LET relationships == conns[nodeID]
               parsed == parseMorphTargets(relationships, tree.Deformer, conns)
           IN IF parsed.threw THEN [acc EXCEPT !.threw = TRUE]
              ELSE [acc EXCEPT
                      !.morphTargets =
                        MapSet(@, nodeID, [id |-> nodeID,
                                           rawTargets |-> parsed.rawTargets])]
       ELSE acc

RECURSIVE DeformerSteps(_, _, _, _)
DeformerSteps(acc, nodeIDs, tree, conns) ==
  IF nodeIDs = <<>> THEN acc
  ELSE DeformerSteps(DeformerStep(acc, Head(nodeIDs), tree, conns),
                     Tail(nodeIDs), tree, conns)

\* lines 531-574
parseDeformers(tree, conns) ==
  DeformerSteps([threw |-> FALSE, skeletons |-> EmptyMap,
                 morphTargets |-> EmptyMap],
                KeysAscending(DOMAIN tree.Deformer), tree, conns)

----------------------------------------------------------------------------
(* Scene nodes: Object3D and its subclasses *)

NoAnimations == [set |-> FALSE, clips |-> <<>>]

\* a freshly constructed node
NewNode(type) ==
  [type |-> type, ID |-> Null, parent |-> Null, children |-> <<>>,
   material |-> <<>>, materialIsArray |-> FALSE, geometry |-> Null,
   transformData |-> FALSE, target |-> Null, attribute |-> Null,
   skeleton |-> Null, animations |-> NoAnimations, transformed |-> 0,
   parentAtTransform |-> Null]

isGroup(node) == node.type = "Group"

isMesh(node) == node.type \in {"Mesh", "SkinnedMesh"}

RECURSIVE Without(_, _)
Without(s, x) ==
  IF s = <<>> THEN <<>>
  ELSE IF Head(s) = x THEN Tail(s)
  ELSE <<Head(s)>> \o Without(Tail(s), x)

\* Object3D.remove
Remove(heap, parent, object) ==
  IF object \in Range(heap[parent].children)
  THEN [heap EXCEPT ![object].parent = Null,
                    ![parent].children = Without(@, object)]
  ELSE heap

\* Object3D.add: adding a node to itself is refused; a node that has a parent
\* is removed from it first
Add(heap, parent, object) ==
  IF object = parent THEN heap
  ELSE LET detached == IF heap[object].parent # Null
                       THEN Remove(heap, heap[object].parent, object)
                       ELSE heap
       IN [detached EXCEPT ![object].parent = parent,
                           ![parent].children = Append(@, object)]

\* array[i] = value on a JS array, 1-based here: the array grows with holes
SetIndex(array, i, value) ==
  [k \in 1..(IF i > Len(array) THEN i ELSE Len(array)) |->
     IF k = i THEN value ELSE IF k <= Len(array) THEN array[k] ELSE Null]

\* the nodes below (and including) root in the order of Object3D.traverse
RECURSIVE Traverse(_, _)
RECURSIVE TraverseAll(_, _)
Traverse(heap, root) == <<root>> \o TraverseAll(heap, heap[root].children)

TraverseAll(heap, roots) ==
  IF roots = <<>> THEN <<>>
  ELSE Traverse(heap, Head(roots)) \o TraverseAll(heap, Tail(roots))

----------------------------------------------------------------------------
(* FBXTreeParser.buildSkeleton *)

\* the indices i of skeleton.rawBones with rawBone.ID === parentID, ascending
RECURSIVE BoneMatchesFrom(_, _, _, _)
BoneMatchesFrom(skeletonID, rawBones, parentID, i) ==
  IF i > Len(rawBones) THEN <<>>
  ELSE (IF rawBones[i].ID = parentID
        THEN <<[skeleton |-> skeletonID, index |-> i]>> ELSE <<>>)
       \o BoneMatchesFrom(skeletonID, rawBones, parentID, i + 1)

RECURSIVE SkeletonMatches(_, _, _)
SkeletonMatches(skeletons, skeletonIDs, parentID) ==
  IF skeletonIDs = <<>> THEN <<>>
  ELSE BoneMatchesFrom(Head(skeletonIDs),
                       skeletons[Head(skeletonIDs)].rawBones, parentID, 1)
       \o SkeletonMatches(skeletons, Tail(skeletonIDs), parentID)

\* the (skeleton, raw bone) pairs for which buildSkeleton constructs a joint,
\* in the order of its three nested loops (lines 768-795)
RECURSIVE BoneMatches(_, _)
BoneMatches(parents, skeletons) ==
  IF parents = <<>> THEN <<>>
  ELSE SkeletonMatches(skeletons, KeysAscending(DOMAIN skeletons),
                       Head(parents).ID)
       \o BoneMatches(Tail(parents), skeletons)

\* a joint construction that never links the joint constructed before
BuildBoneUnlinked(acc, match, id) ==
  LET bone == Len(acc.heap) + 1
  IN [bone |-> bone,
      skeletons |-> [acc.skeletons EXCEPT
                       ![match.skeleton].bones =
                         SetIndex(@, match.index, bone)],
      heap |-> Append(acc.heap, [NewNode("Bone") EXCEPT !.ID = id])]

\* lines 774-791 for one match
BuildBone(acc, match, id) ==
  LET subBone == acc.bone
      bone == Len(acc.heap) + 1
      made == Append(acc.heap, [NewNode("Bone") EXCEPT !.ID = id])
  IN [bone |-> bone,
      skeletons |-> [acc.skeletons EXCEPT
                       ![match.skeleton].bones =
                         SetIndex(@, match.index, bone)],
      heap |-> IF subBone # Null THEN Add(made, bone, subBone) ELSE made]

RECURSIVE BuildBones(_, _, _)
BuildBones(acc, matches, id) ==
  IF matches = <<>> THEN acc
  ELSE BuildBones(BuildBone(acc, Head(matches), id), Tail(matches), id)

\* lines 765-798: bone is the returned joint, 0 for null
buildSkeleton(relationships, skeletons, id, heap) ==
  BuildBones([bone |-> Null, skeletons |-> skeletons, heap |-> heap],
             BoneMatches(relationships.parents, skeletons), id)

----------------------------------------------------------------------------
(* FBXTreeParser.createCamera, createLight, createMesh, createCurve *)

\* a loop that keeps the first child that is a NodeAttribute node
AttributeOfFirst(children, attributes, found) ==
  LET attrs == SelectSeq(children, LAMBDA c : c.ID \in DOMAIN attributes)
  IN IF attrs = <<>> THEN found ELSE attrs[1].ID

\* the loop of lines 809-815 and 888-894: every child that is a NodeAttribute
\* node overwrites the attribute found before it.  0 when there is none.
RECURSIVE AttributeOf(_, _, _)
AttributeOf(children, attributes, found) ==
  IF children = <<>> THEN found
  ELSE AttributeOf(Tail(children), attributes,
                   IF Head(children).ID \in DOMAIN attributes
                   THEN Head(children).ID ELSE found)

\* fbxTree.Objects.NodeAttribute[child.ID] throws a TypeError when the tree
\* has no NodeAttribute section and there is a child to look up
AttributeLookupThrows(relationships, tree) ==
  relationships.children # <<>> /\ DOMAIN tree.NodeAttribute = {}

\* lines 805-877.  The assignments to the const nearClippingPlane and
\* farClippingPlane (lines 827, 832) throw a TypeError.
createCamera(relationships, tree, heap) ==
  LET id == AttributeOf(relationships.children, tree.NodeAttribute, Null)
      cameraAttribute == tree.NodeAttribute[id]
      handle == Len(heap) + 1
  IN IF AttributeLookupThrows(relationships, tree)
     THEN [threw |-> TRUE, model |-> Null, heap |-> heap]
     ELSE IF id = Null
     THEN [threw |-> FALSE, model |-> handle,
           heap |-> Append(heap, NewNode("Object3D"))]
     ELSE IF cameraAttribute.NearPlane \/ cameraAttribute.FarPlane
     THEN [threw |-> TRUE, model |-> Null, heap |-> heap]
     ELSE
       LET type == IF cameraAttribute.CameraProjectionType.present
                      /\ cameraAttribute.CameraProjectionType.value = 1
                   THEN 1 ELSE 0
       IN [threw |-> FALSE, model |-> handle,
           heap |-> Append(heap,
                      [NewNode(IF type = 0 THEN "PerspectiveCamera"
                               ELSE "OrthographicCamera")
                         EXCEPT !.attribute = id])]

LightClass(type) ==
  CASE type = 0 -> "PointLight"
    [] type = 1 -> "DirectionalLight"
    [] type = 2 -> "SpotLight"
    [] OTHER -> "PointLight"

\* the light classes whose constructor creates a target node
HasTarget(class) == class \in {"DirectionalLight", "SpotLight"}

\* lines 884-975
createLight(relationships, tree, heap) ==
  LET id == AttributeOf(relationships.children, tree.NodeAttribute, Null)
      lightAttribute == tree.NodeAttribute[id]
      handle == Len(heap) + 1
  IN IF AttributeLookupThrows(relationships, tree)
     THEN [threw |-> TRUE, model |-> Null, heap |-> heap]
     ELSE IF id = Null
     THEN [threw |-> FALSE, model |-> handle,
           heap |-> Append(heap, NewNode("Object3D"))]
     ELSE
       LET type == IF ~lightAttribute.LightType.present THEN 0
                   ELSE lightAttribute.LightType.value
           class == LightClass(type)
           light == [NewNode(class) EXCEPT
                       !.attribute = id,
                       !.target = IF HasTarget(class) THEN handle + 1
                                  ELSE Null]
       IN [threw |-> FALSE, model |-> handle,
           heap |-> IF HasTarget(class)
                    THEN Append(Append(heap, light), NewNode("Object3D"))
                    ELSE Append(heap, light)]

\* the loop of lines 989-997: the last child that is a geometry, and the
\* materials of the children that are in the material registry, in order
RECURSIVE GeometryOf(_, _, _)
GeometryOf(children, geometries, found) ==
  IF children = <<>> THEN found
  ELSE GeometryOf(Tail(children), geometries,
                  IF Has(geometries, Head(children).ID)
                  THEN Head(children).ID ELSE found)

RECURSIVE MaterialsOf(_, _)
MaterialsOf(children, materials) ==
  IF children = <<>> THEN <<>>
  ELSE (IF Has(materials, Head(children).ID)
        THEN <<materials[Head(children).ID]>> ELSE <<>>)
       \o MaterialsOf(Tail(children), materials)

DefaultGray == "0xcccccc"

\* material.<flag> = TRUE for every material of the list
FlagAll(heap, handles, flag) ==
  [h \in DOMAIN heap |->
     IF h \in Range(handles)
     THEN [heap[h] EXCEPT ![flag] = TRUE] ELSE heap[h]]

\* createMesh that keeps the first material only
createMeshFirstMaterial(relationships, geometries, materials, heap, mheap) ==
  LET geometry == GeometryOf(relationships.children, geometries, Null)
      found == MaterialsOf(relationships.children, materials)
      fresh == Len(mheap) + 1
      list == IF Len(found) > 0 THEN <<found[1]>> ELSE <<fresh>>
      mheap1 == IF Len(found) > 0 THEN mheap
                ELSE Append(mheap,
                            NewMaterial("MeshPhongMaterial", Null, NoChannels,
                                        FALSE, DefaultGray))
      handle == Len(heap) + 1
  IN IF geometry = Null
     THEN [threw |-> TRUE, model |-> Null, heap |-> heap, mheap |-> mheap]
     ELSE [threw |-> FALSE, model |-> handle,
           heap |-> Append(heap,
                           [NewNode(IF geometries[geometry].FBX_Deformer
                                    THEN "SkinnedMesh" ELSE "Mesh")
                              EXCEPT !.geometry = geometry,
                                     !.material = list]),
           mheap |-> mheap1]

\* lines 982-1026.  Throws a TypeError at line 1008 when no child is a
\* geometry (geometry is null).
createMesh(relationships, geometries, materials, heap, mheap) ==
  LET geometry == GeometryOf(relationships.children, geometries, Null)
      found == MaterialsOf(relationships.children, materials)
      fresh == Len(mheap) + 1
      list == IF Len(found) > 0 THEN found ELSE <<fresh>>
      mheap1 == IF Len(found) > 0 THEN mheap
                ELSE Append(mheap,
                            NewMaterial("MeshPhongMaterial", Null, NoChannels,
                                        FALSE, DefaultGray))
      handle == Len(heap) + 1
  IN IF geometry = Null
     THEN [threw |-> TRUE, model |-> Null, heap |-> heap, mheap |-> mheap]
     ELSE
       LET mheap2 == IF geometries[geometry].color
                     THEN FlagAll(mheap1, list, "vertexColors") ELSE mheap1
           mheap3 == IF geometries[geometry].FBX_Deformer
                     THEN FlagAll(mheap2, list, "skinning") ELSE mheap2
           mesh == [NewNode(IF geometries[geometry].FBX_Deformer
                            THEN "SkinnedMesh" ELSE "Mesh")
                      EXCEPT !.geometry = geometry,
                             !.material = list,
                             !.materialIsArray = Len(found) > 1]
       IN [threw |-> FALSE, model |-> handle, heap |-> Append(heap, mesh),
           mheap |-> mheap3]

\* lines 1032-1042
createCurve(relationships, geometries, heap, mheap) ==
  LET geometry == GeometryOf(relationships.children, geometries, Null)
  IN [threw |-> FALSE, model |-> Len(heap) + 1,
      heap |-> Append(heap, [NewNode("Line") EXCEPT
                               !.geometry = geometry,
                               !.material = <<Len(mheap) + 1>>]),
      mheap |-> Append(mheap,
                       NewMaterial("LineBasicMaterial", Null, NoChannels,
                                   FALSE, "0x3300ff"))]

----------------------------------------------------------------------------
(* FBXTreeParser.parseModels: one iteration of its for-in (lines 723-760) *)

\* a dispatch whose LimbNode and Root cases fall through to the default
CreateByTypeNoJoint(node, relationships, tree, geometries, materials, heap, mheap) ==
  CASE node.attrType = "Camera" ->
         createCamera(relationships, tree, heap) @@ [mheap |-> mheap]
    [] node.attrType = "Light" ->
         createLight(relationships, tree, heap) @@ [mheap |-> mheap]
    [] node.attrType = "Mesh" ->
         createMesh(relationships, geometries, materials, heap, mheap)
    [] node.attrType = "NurbsCurve" ->
         createCurve(relationships, geometries, heap, mheap)
    [] OTHER ->
         [threw |-> FALSE, model |-> Len(heap) + 1,
          heap |-> Append(heap, NewNode("Group")), mheap |-> mheap]

\* lines 731-752: the node built for a model that is no bone of a skeleton
CreateByType(node, relationships, tree, geometries, materials, heap, mheap) ==
  CASE node.attrType = "Camera" ->
         createCamera(relationships, tree, heap) @@ [mheap |-> mheap]
    [] node.attrType = "Light" ->
         createLight(relationships, tree, heap) @@ [mheap |-> mheap]
    [] node.attrType = "Mesh" ->
         createMesh(relationships, geometries, materials, heap, mheap)
    [] node.attrType = "NurbsCurve" ->
         createCurve(relationships, geometries, heap, mheap)
    [] node.attrType \in {"LimbNode", "Root"} ->
         [threw |-> FALSE, model |-> Len(heap) + 1,
          heap |-> Append(heap, NewNode("Bone")), mheap |-> mheap]
    [] OTHER ->
         [threw |-> FALSE, model |-> Len(heap) + 1,
          heap |-> Append(heap, NewNode("Group")), mheap |-> mheap]

\* The model without entry in the connection graph makes buildSkeleton throw
\* a TypeError (relationships is undefined at line 768).
ParseModel(id, tree, conns, skeletons, geometries, materials, models, heap, mheap) ==
  IF ~HasEntry(conns, id)
  THEN [threw |-> TRUE, skeletons |-> skeletons, models |-> models,
        heap |-> heap, mheap |-> mheap]
  ELSE
    LET node == tree.Model[id]
        relationships == conns[id]
        built == buildSkeleton(relationships, skeletons, id, heap)
    IN IF built.bone # Null
       THEN [threw |-> FALSE, skeletons |-> built.skeletons,
             models |-> MapSet(models, id, built.bone),
             heap |-> [built.heap EXCEPT ![built.bone].transformData = TRUE],
             mheap |-> mheap]
       ELSE
         LET made == CreateByType(node, relationships, tree, geometries,
                                  materials, heap, mheap)
         IN IF made.threw
            THEN [threw |-> TRUE, skeletons |-> skeletons, models |-> models,
                  heap |-> heap, mheap |-> mheap]
            ELSE [threw |-> FALSE, skeletons |-> skeletons,
                  models |-> MapSet(models, id, made.model),
                  heap |-> [made.heap EXCEPT
                              ![made.model].ID = id,
                              ![made.model].transformData = TRUE],
                  mheap |-> made.mheap]

----------------------------------------------------------------------------
(* FBXTreeParser.parseScene: hierarchy assembly (lines 664-678) *)

\* setLookAtProperties (lines 1079-1103), one child.  A look-at child that is
\* no Model node throws a TypeError at line 1087.  Pointing a node without
\* target slot at the position changes its orientation only.
LookAtChild(acc, child, model, tree, root) ==
  IF acc.threw \/ child.relationship # "LookAtProperty" THEN acc
  ELSE IF child.ID \notin DOMAIN tree.Model THEN [acc EXCEPT !.threw = TRUE]
  ELSE IF ~tree.Model[child.ID].Lcl_Translation THEN acc
  ELSE IF acc.heap[model].target # Null
  THEN [acc EXCEPT !.heap = Add(@, root, acc.heap[model].target)]
  ELSE acc

RECURSIVE LookAtChildren(_, _, _, _, _)
LookAtChildren(acc, children, model, tree, root) ==
  IF children = <<>> THEN acc
  ELSE LookAtChildren(LookAtChild(acc, Head(children), model, tree, root),
                      Tail(children), model, tree, root)

setLookAtProperties(heap, model, modelNode, tree, conns, root) ==
  IF modelNode.LookAtProperty
  THEN LookAtChildren([threw |-> FALSE, heap |-> heap],
                      conns[heap[model].ID].children, model, tree, root)
  ELSE [threw |-> FALSE, heap |-> heap]

\* a forEach that adds the model to a parent only while it has none
RECURSIVE AddToParentsFirst(_, _, _, _)
AddToParentsFirst(heap, parentConnections, model, models) ==
  IF parentConnections = <<>> THEN heap
  ELSE AddToParentsFirst(
         IF Has(models, Head(parentConnections).ID)
            /\ heap[model].parent = Null
         THEN Add(heap, models[Head(parentConnections).ID], model)
         ELSE heap,
         Tail(parentConnections), model, models)

\* parentConnections.forEach (lines 670-673)
RECURSIVE AddToParents(_, _, _, _)
AddToParents(heap, parentConnections, model, models) ==
  IF parentConnections = <<>> THEN heap
  ELSE AddToParents(
         IF Has(models, Head(parentConnections).ID)
         THEN Add(heap, models[Head(parentConnections).ID], model)
         ELSE heap,
         Tail(parentConnections), model, models)

\* the body of modelMap.forEach without the test of lines 675-677: a model
\* that found no parent is left out of the scene
AttachModelNoRoot(acc, id, tree, conns, models, root) ==
  IF acc.threw THEN acc
  ELSE
    LET model == models[id]
        looked == setLookAtProperties(acc.heap, model,
                                      tree.Model[acc.heap[model].ID], tree,
                                      conns, root)
    IN IF looked.threw THEN [acc EXCEPT !.threw = TRUE]
       ELSE [acc EXCEPT
               !.heap = AddToParents(looked.heap,
                                     conns[acc.heap[model].ID].parents,
                                     model, models)]

\* the body of modelMap.forEach (lines 664-678) for one model
AttachModel(acc, id, tree, conns, models, root) ==
  IF acc.threw THEN acc
  ELSE
    LET model == models[id]
        looked == setLookAtProperties(acc.heap, model,
                                      tree.Model[acc.heap[model].ID], tree,
                                      conns, root)
    IN IF looked.threw THEN [acc EXCEPT !.threw = TRUE]
       ELSE
         LET attached == AddToParents(looked.heap,
                                      conns[acc.heap[model].ID].parents,
                                      model, models)
         IN [acc EXCEPT
               !.heap = IF attached[model].parent = Null
                        THEN Add(attached, root, model) ELSE attached]

RECURSIVE AttachModels(_, _, _, _, _, _)
AttachModels(acc, ids, tree, conns, models, root) ==
  IF ids = <<>> THEN acc
  ELSE AttachModels(AttachModel(acc, Head(ids), tree, conns, models, root),
                    Tail(ids), tree, conns, models, root)

\* a Map iterates in insertion order: parseModels inserts in the order of its
\* for-in, ascending
AssembleHierarchy(heap, tree, conns, models, root) ==
  AttachModels([threw |-> FALSE, heap |-> heap],
               KeysAscending(DOMAIN models), tree, conns, models, root)

----------------------------------------------------------------------------
(* FBXTreeParser.bindSkeleton (lines 1110-1133) *)

\* geoRelationships.parents.forEach: model.bind exists on a SkinnedMesh only;
\* on any other node the call throws a TypeError
RECURSIVE BindModels(_, _, _, _)
BindModels(acc, geoParents, skeletonID, models) ==
  IF geoParents = <<>> \/ acc.threw THEN acc
  ELSE BindModels(
         IF ~Has(models, Head(geoParents).ID) THEN acc
         ELSE IF acc.heap[models[Head(geoParents).ID]].type # "SkinnedMesh"
         THEN [acc EXCEPT !.threw = TRUE]
         ELSE [acc EXCEPT
                 !.heap[models[Head(geoParents).ID]].skeleton = skeletonID],
         Tail(geoParents), skeletonID, models)

RECURSIVE BindGeometries(_, _, _, _, _, _)
BindGeometries(acc, parents, skeletonID, conns, geometries, models) ==
  IF parents = <<>> \/ acc.threw THEN acc
  ELSE BindGeometries(
         IF Has(geometries, Head(parents).ID)
         THEN BindModels(acc, conns[Head(parents).ID].parents, skeletonID,
                         models)
         ELSE acc,
         Tail(parents), skeletonID, conns, geometries, models)

RECURSIVE BindSkeletons(_, _, _, _, _, _)
BindSkeletons(acc, skeletonIDs, skeletons, conns, geometries, models) ==
  IF skeletonIDs = <<>> \/ acc.threw THEN acc
  ELSE BindSkeletons(
         BindGeometries(acc, conns[skeletons[Head(skeletonIDs)].ID].parents,
                        Head(skeletonIDs), conns, geometries, models),
         Tail(skeletonIDs), skeletons, conns, geometries, models)

bindSkeleton(heap, skeletons, conns, geometries, models) ==
  BindSkeletons([threw |-> FALSE, heap |-> heap],
                KeysAscending(DOMAIN skeletons), skeletons, conns,
                geometries, models)

----------------------------------------------------------------------------
(* FBXTreeParser.createAmbientLight (lines 1160-1172) *)

createAmbientLight(heap, tree, root) ==
  IF tree.AmbientColor = "color"
  THEN Add(Append(heap, NewNode("AmbientLight")), root, Len(heap) + 1)
  ELSE heap

----------------------------------------------------------------------------
(* FBXTreeParser.setupMorphMaterials, setupMorphMaterial (lines 1174-1223) *)

\* the traverse of lines 1202-1212: some other mesh of the scene uses the
\* material
SharedMaterial(heap, root, child, material) ==
  \E node \in Range(Traverse(heap, root)) :
     /\ isMesh(heap[node])
     /\ material \in Range(heap[node].material)
     /\ node # child

\* a setupMorphMaterial that never clones
setupMorphMaterialInPlace(acc, root, child, index) ==
  [acc EXCEPT !.mheap[acc.heap[child].material[index]].morphTargets = TRUE]

\* setupMorphMaterial for the index-th material of child
setupMorphMaterial(acc, root, child, index) ==
  LET material == acc.heap[child].material[index]
  IN IF SharedMaterial(acc.heap, root, child, material)
     THEN [heap |-> [acc.heap EXCEPT
                       ![child].material[index] = Len(acc.mheap) + 1],
           mheap |-> Append(acc.mheap,
                            [acc.mheap[material] EXCEPT
                               !.morphTargets = TRUE,
                               !.cloneOf = material])]
     ELSE [acc EXCEPT !.mheap[material].morphTargets = TRUE]

RECURSIVE MorphMaterialsOf(_, _, _, _)
MorphMaterialsOf(acc, root, child, index) ==
  IF index > Len(acc.heap[child].material) THEN acc
  ELSE MorphMaterialsOf(setupMorphMaterial(acc, root, child, index), root,
                        child, index + 1)

RECURSIVE MorphMaterialsAll(_, _, _, _)
MorphMaterialsAll(acc, root, visit, geometries) ==
  IF visit = <<>> THEN acc
  ELSE
    LET child == Head(visit)
        morph == /\ isMesh(acc.heap[child])
                 /\ geometries[acc.heap[child].geometry].morphPositions > 0
    IN MorphMaterialsAll(
         IF morph THEN MorphMaterialsOf(acc, root, child, 1) ELSE acc,
         root, Tail(visit), geometries)

setupMorphMaterials(heap, mheap, root, geometries) ==
  MorphMaterialsAll([heap |-> heap, mheap |-> mheap], root,
                    Traverse(heap, root), geometries)

----------------------------------------------------------------------------
(* FBXTreeParser.parseScene: the transform pass (lines 687-699) *)

\* every node with transform data, in traverse order, is given its parent's
\* matrices, transformed, and has its world matrix refreshed; transformed
\* records the position of the node in that order
RECURSIVE TransformAll(_, _, _)
TransformAll(heap, visit, done) ==
  IF visit = <<>> THEN heap
  ELSE
    LET node == Head(visit)
    IN IF heap[node].transformData
       THEN TransformAll(
              [heap EXCEPT ![node].transformed = done + 1,
                           ![node].parentAtTransform = heap[node].parent],
              Tail(visit), done + 1)
       ELSE TransformAll(heap, Tail(visit), done)

\* a pass that visits the nodes in the reverse of the traverse order
TransformPassBottomUp(heap, root) ==
  LET visit == Traverse(heap, root)
  IN TransformAll(heap, [i \in 1..Len(visit) |-> visit[Len(visit) + 1 - i]],
                  0)

TransformPass(heap, root) == TransformAll(heap, Traverse(heap, root), 0)

----------------------------------------------------------------------------
(* FBXTreeParser.parseScene: animations and the collapse rule (701-709) *)

\* AnimationParser.parse: the clip list of the tree
AnimationParserParse(tree) == tree.animations

\* a collapse rule that does not ask whether the only child is a Group
CollapsedRootAnyChild(heap, root) ==
  IF Len(heap[root].children) = 1
  THEN heap[root].children[1] ELSE root

\* the root parseScene leaves in sceneGraph
CollapsedRoot(heap, root) ==
  IF Len(heap[root].children) = 1 /\ isGroup(heap[heap[root].children[1]])
  THEN heap[root].children[1] ELSE root

Collapse(heap, root, animations) ==
  LET newRoot == CollapsedRoot(heap, root)
  IN [root |-> newRoot,
      heap |-> [heap EXCEPT
                  ![newRoot].animations = [set |-> TRUE, clips |-> animations]]]

----------------------------------------------------------------------------
(* GeometryParser.parse: the geometry registry, keyed by the IDs of the
   Geometry nodes; each geometry carries whether it has a vertex-colour
   attribute, whether it is linked to a deformer, and how many morph-target
   position sets it has *)

GeometryParserParse(tree, defs) == tree.Geometry

----------------------------------------------------------------------------
(* The parse call as a state machine *)

\* the locals of a call of FBXLoader.parse before its first statement
NewCall(buffer) ==
  [FBXBuffer |-> buffer, pc |-> "parse", ran |-> <<>>, images |-> EmptyMap,
   textureMap |-> EmptyMap, materialMap |-> EmptyMap,
   deformers |-> NoDeformers, geometryMap |-> EmptyMap,
   modelMap |-> EmptyMap, cursor |-> 0, result |-> NoResult]

NoCall == [NewCall([head |-> <<>>, body |-> NoTree]) EXCEPT !.pc = "none"]

\* a call of FBXLoader.load (lines 1250-1277) whose file has been fetched:
\* what its onLoad and onError callbacks do when invoked ("absent" for a
\* callback that was not given), and what has been invoked so far
NewLoad(onLoad, onError) ==
  [stage |-> "fetched", onLoad |-> onLoad, onError |-> onError,
   onLoadCalls |-> 0, onLoadArg |-> Null, onErrorCalls |-> 0,
   onErrorArg |-> "", consoleErrors |-> 0, itemErrors |-> 0]

NoLoad == [NewLoad("absent", "absent") EXCEPT !.stage = "none"]

InitLoads(buffers, waiting, loads) ==
  /\ loadCall \in loads
  /\ FBXBuffer \in buffers
  /\ pc = "parse"
  /\ ran = <<>>
  /\ fbxTree = NoTree
  /\ connections = EmptyMap
  /\ sceneGraph = Null
  /\ images = EmptyMap
  /\ textureMap = EmptyMap
  /\ materialMap = EmptyMap
  /\ deformers = NoDeformers
  /\ geometryMap = EmptyMap
  /\ modelMap = EmptyMap
  /\ cursor = 0
  /\ nodes = <<>>
  /\ matHeap = <<>>
  /\ result = NoResult
  /\ suspended \in waiting

InitCalls(buffers, waiting) == InitLoads(buffers, waiting, {NoLoad})

\* one call of FBXLoader.parse
InitWith(buffers) == InitCalls(buffers, {NoCall})

\* an exception leaves FBXLoader.parse
Throw(kind) ==
  /\ pc' = "error"
  /\ result' = Threw(kind)

\* FBXLoader.parse, lines 1281-1303: sniff the format, decode the tree, and
\* hand it to a new FBXTreeParser
LoaderParse ==
  /\ pc = "parse"
  /\ LET decoded == LoaderDecode(FBXBuffer)
     IN /\ ran' = decoded.ran
        /\ IF decoded.threw
           THEN Throw(decoded.error) /\ UNCHANGED fbxTree
           ELSE /\ fbxTree' = decoded.tree
                /\ pc' = "connections"
                /\ UNCHANGED result
  /\ UNCHANGED <<loadCall, suspended, FBXBuffer, connections, sceneGraph, images, textureMap,
                 materialMap, deformers, geometryMap, modelMap, cursor, nodes,
                 matHeap>>

\* FBXTreeParser.parse, line 60
ParseConnections ==
  /\ pc = "connections"
  /\ connections' = parseConnections(fbxTree)
  /\ ran' = Append(ran, "parseConnections")
  /\ pc' = "images"
  /\ UNCHANGED <<loadCall, suspended, FBXBuffer, fbxTree, sceneGraph, images, textureMap,
                 materialMap, deformers, geometryMap, modelMap, cursor, nodes,
                 matHeap, result>>

\* line 62
ParseImages ==
  /\ pc = "images"
  /\ images' = parseImages(fbxTree)
  /\ ran' = Append(ran, "parseImages")
  /\ pc' = "textures"
  /\ UNCHANGED <<loadCall, suspended, FBXBuffer, fbxTree, connections, sceneGraph, textureMap,
                 materialMap, deformers, geometryMap, modelMap, cursor, nodes,
                 matHeap, result>>

\* line 63
ParseTextures ==
  /\ pc = "textures"
  /\ ran' = Append(ran, "parseTextures")
  /\ LET parsed == parseTextures(fbxTree, images, connections)
     IN IF parsed.threw
        THEN Throw("TypeError") /\ UNCHANGED textureMap
        ELSE /\ textureMap' = parsed.map
             /\ pc' = "materials"
             /\ UNCHANGED result
  /\ UNCHANGED <<loadCall, suspended, FBXBuffer, fbxTree, connections, sceneGraph, images,
                 materialMap, deformers, geometryMap, modelMap, cursor, nodes,
                 matHeap>>

\* line 64
ParseMaterials ==
  /\ pc = "materials"
  /\ ran' = Append(ran, "parseMaterials")
  /\ LET parsed == parseMaterials(fbxTree, textureMap, connections, matHeap)
     IN IF parsed.threw
        THEN Throw("TypeError") /\ UNCHANGED <<materialMap, matHeap, textureMap>>
        ELSE /\ materialMap' = parsed.map
             /\ matHeap' = parsed.heap
             /\ textureMap' = parsed.textures
             /\ pc' = "deformers"
             /\ UNCHANGED result
  /\ UNCHANGED <<loadCall, suspended, FBXBuffer, fbxTree, connections, sceneGraph, images,
                 deformers, geometryMap, modelMap, cursor, nodes>>

\* line 65
ParseDeformers ==
  /\ pc = "deformers"
  /\ ran' = Append(ran, "parseDeformers")
  /\ LET parsed == parseDeformers(fbxTree, connections)
     IN IF parsed.threw
        THEN Throw("TypeError") /\ UNCHANGED deformers
        ELSE /\ deformers' = [skeletons |-> parsed.skeletons,
                              morphTargets |-> parsed.morphTargets]
             /\ pc' = "geometry"
             /\ UNCHANGED result
  /\ UNCHANGED <<loadCall, suspended, FBXBuffer, fbxTree, connections, sceneGraph, images,
                 textureMap, materialMap, geometryMap, modelMap, cursor, nodes,
                 matHeap>>

\* line 66
ParseGeometries ==
  /\ pc = "geometry"
  /\ geometryMap' = GeometryParserParse(fbxTree, deformers)
  /\ ran' = Append(ran, "GeometryParser")
  /\ pc' = "scene"
  /\ UNCHANGED <<loadCall, suspended, FBXBuffer, fbxTree, connections, sceneGraph, images,
                 textureMap, materialMap, deformers, modelMap, cursor, nodes,
                 matHeap, result>>

\* parseScene, lines 657-659 up to the loop of parseModels: a new scene root
\* and an empty model registry
ParseSceneBegin ==
  /\ pc = "scene"
  /\ nodes' = Append(nodes, NewNode("Group"))
  /\ sceneGraph' = Len(nodes) + 1
  /\ modelMap' = EmptyMap
  /\ cursor' = 1
  /\ ran' = Append(ran, "parseScene")
  /\ pc' = "models"
  /\ UNCHANGED <<loadCall, suspended, FBXBuffer, fbxTree, connections, images, textureMap,
                 materialMap, deformers, geometryMap, matHeap, result>>

ModelIDs == KeysAscending(DOMAIN fbxTree.Model)

\* one iteration of the for-in of parseModels (lines 723-760)
ParseModelsStep ==
  /\ pc = "models"
  /\ cursor <= Len(ModelIDs)
  /\ LET parsed == ParseModel(ModelIDs[cursor], fbxTree, connections,
                              deformers.skeletons, geometryMap, materialMap,
                              modelMap, nodes, matHeap)
     IN IF parsed.threw
        THEN /\ Throw("TypeError")
             /\ UNCHANGED <<deformers, modelMap, nodes, matHeap, cursor>>
        ELSE /\ deformers' = [deformers EXCEPT !.skeletons = parsed.skeletons]
             /\ modelMap' = parsed.models
             /\ nodes' = parsed.heap
             /\ matHeap' = parsed.mheap
             /\ cursor' = cursor + 1
             /\ UNCHANGED <<pc, result>>
  /\ UNCHANGED <<loadCall, suspended, FBXBuffer, ran, fbxTree, connections, sceneGraph, images,
                 textureMap, materialMap, geometryMap>>

\* parseScene, lines 664-678, once parseModels has returned
AssembleScene ==
  /\ pc = "models"
  /\ cursor > Len(ModelIDs)
  /\ ran' = Append(ran, "hierarchy")
  /\ LET assembled == AssembleHierarchy(nodes, fbxTree, connections, modelMap,
                                        sceneGraph)
     IN IF assembled.threw
        THEN Throw("TypeError") /\ UNCHANGED nodes
        ELSE /\ nodes' = assembled.heap
             /\ pc' = "bind"
             /\ UNCHANGED result
  /\ UNCHANGED <<loadCall, suspended, FBXBuffer, fbxTree, connections, sceneGraph, images,
                 textureMap, materialMap, deformers, geometryMap, modelMap,
                 cursor, matHeap>>

\* line 680
BindSkeleton ==
  /\ pc = "bind"
  /\ ran' = Append(ran, "bindSkeleton")
  /\ LET bound == bindSkeleton(nodes, deformers.skeletons, connections,
                               geometryMap, modelMap)
     IN IF bound.threw
        THEN Throw("TypeError") /\ UNCHANGED nodes
        ELSE /\ nodes' = bound.heap
             /\ pc' = "ambient"
             /\ UNCHANGED result
  /\ UNCHANGED <<loadCall, suspended, FBXBuffer, fbxTree, connections, sceneGraph, images,
                 textureMap, materialMap, deformers, geometryMap, modelMap,
                 cursor, matHeap>>

\* line 682
CreateAmbientLight ==
  /\ pc = "ambient"
  /\ nodes' = createAmbientLight(nodes, fbxTree, sceneGraph)
  /\ ran' = Append(ran, "createAmbientLight")
  /\ pc' = "morph"
  /\ UNCHANGED <<loadCall, suspended, FBXBuffer, fbxTree, connections, sceneGraph, images,
                 textureMap, materialMap, deformers, geometryMap, modelMap,
                 cursor, matHeap, result>>

\* line 684
SetupMorphMaterials ==
  /\ pc = "morph"
  /\ LET done == setupMorphMaterials(nodes, matHeap, sceneGraph, geometryMap)
     IN /\ nodes' = done.heap
        /\ matHeap' = done.mheap
  /\ ran' = Append(ran, "setupMorphMaterials")
  /\ pc' = "transform"
  /\ UNCHANGED <<loadCall, suspended, FBXBuffer, fbxTree, connections, sceneGraph, images,
                 textureMap, materialMap, deformers, geometryMap, modelMap,
                 cursor, result>>

\* lines 687-699
TransformNodes ==
  /\ pc = "transform"
  /\ nodes' = TransformPass(nodes, sceneGraph)
  /\ ran' = Append(ran, "transform")
  /\ pc' = "animations"
  /\ UNCHANGED <<loadCall, suspended, FBXBuffer, fbxTree, connections, sceneGraph, images,
                 textureMap, materialMap, deformers, geometryMap, modelMap,
                 cursor, matHeap, result>>

\* lines 701-709, and the return of lines 70 and 1303
FinishScene ==
  /\ pc = "animations"
  /\ LET collapsed == Collapse(nodes, sceneGraph, AnimationParserParse(fbxTree))
     IN /\ nodes' = collapsed.heap
        /\ sceneGraph' = collapsed.root
        /\ result' = Returned(collapsed.root)
  /\ ran' = Append(ran, "AnimationParser")
  /\ pc' = "done"
  /\ UNCHANGED <<loadCall, suspended, FBXBuffer, fbxTree, connections, images, textureMap,
                 materialMap, deformers, geometryMap, modelMap, cursor,
                 matHeap>>

Next ==
  \/ LoaderParse
  \/ ParseConnections
  \/ ParseImages
  \/ ParseTextures
  \/ ParseMaterials
  \/ ParseDeformers
  \/ ParseGeometries
  \/ ParseSceneBegin
  \/ ParseModelsStep
  \/ AssembleScene
  \/ BindSkeleton
  \/ CreateAmbientLight
  \/ SetupMorphMaterials
  \/ TransformNodes
  \/ FinishScene

\* A second call of FBXLoader.parse that runs between two stages of the
\* first one (parse runs synchronously; a callback of the loading manager
\* or of a texture loader that parses another file re-enters it).  The
\* calls exchange their locals; fbxTree, connections and sceneGraph are the
\* same variables for both, and so are the heaps.
BetweenStages(at) ==
  at \in {"parse", "connections", "images", "textures", "materials",
          "deformers", "geometry", "scene", "done", "error"}

Switch ==
  /\ suspended.pc \notin {"none", "done", "error"}
  /\ BetweenStages(pc)
  /\ suspended' = [FBXBuffer |-> FBXBuffer, pc |-> pc, ran |-> ran,
                   images |-> images, textureMap |-> textureMap,
                   materialMap |-> materialMap, deformers |-> deformers,
                   geometryMap |-> geometryMap, modelMap |-> modelMap,
                   cursor |-> cursor, result |-> result]
  /\ FBXBuffer' = suspended.FBXBuffer
  /\ pc' = suspended.pc
  /\ ran' = suspended.ran
  /\ images' = suspended.images
  /\ textureMap' = suspended.textureMap
  /\ materialMap' = suspended.materialMap
  /\ deformers' = suspended.deformers
  /\ geometryMap' = suspended.geometryMap
  /\ modelMap' = suspended.modelMap
  /\ cursor' = suspended.cursor
  /\ result' = suspended.result
  /\ UNCHANGED <<loadCall, fbxTree, connections, sceneGraph, nodes, matHeap>>

NextTwo == Next \/ Switch

\* the catch block of lines 1266-1274
LoadCatch(call, e) ==
  LET reported ==
        IF call.onError # "absent"
        THEN [call EXCEPT !.onErrorCalls = @ + 1, !.onErrorArg = e]
        ELSE [call EXCEPT !.consoleErrors = @ + 1]
  IN IF call.onError = "throws"
     THEN [reported EXCEPT !.stage = "threw"]
     ELSE [reported EXCEPT !.itemErrors = @ + 1, !.stage = "returned"]

\* the callback load hands to FileLoader (lines 1262-1275), from the point
\* where this.parse has returned or thrown: onLoad is called inside the try
\* block, so what it throws is caught like what parse throws
OnFileLoaded ==
  /\ loadCall.stage = "fetched"
  /\ pc \in {"done", "error"}
  /\ loadCall' =
       IF pc = "error" THEN LoadCatch(loadCall, result.error)
       ELSE IF loadCall.onLoad = "absent"
       THEN LoadCatch(loadCall, "TypeError")
       ELSE
         LET called == [loadCall EXCEPT !.onLoadCalls = @ + 1,
                                        !.onLoadArg = result.scene]
         IN IF loadCall.onLoad = "throws"
            THEN LoadCatch(called, "thrown by onLoad")
            ELSE [called EXCEPT !.stage = "returned"]
  /\ UNCHANGED <<FBXBuffer, pc, ran, fbxTree, connections, sceneGraph, images,
                 textureMap, materialMap, deformers, geometryMap, modelMap,
                 cursor, nodes, matHeap, result, suspended>>

NextLoad == Next \/ OnFileLoaded

----------------------------------------------------------------------------
(* One call of FBXLoader.parse from its first statement to its return, as a
   function of the buffer *)

\* parseModels (lines 719-763): the whole for-in
RECURSIVE parseModels(_, _, _, _, _, _)
parseModels(acc, ids, tree, conns, geometries, materials) ==
  IF ids = <<>> \/ acc.threw THEN acc
  ELSE parseModels(ParseModel(Head(ids), tree, conns, acc.skeletons,
                              geometries, materials, acc.models, acc.heap,
                              acc.mheap),
                   Tail(ids), tree, conns, geometries, materials)

\* parseScene (lines 655-710) on a heap of its own: the scene root is the
\* first node
parseScene(tree, conns, defs, geometries, materials, mheap) ==
  LET failed == [threw |-> TRUE, heap |-> <<>>, root |-> Null]
      parsed == parseModels([threw |-> FALSE, skeletons |-> defs.skeletons,
                             models |-> EmptyMap,
                             heap |-> <<NewNode("Group")>>, mheap |-> mheap],
                            KeysAscending(DOMAIN tree.Model), tree, conns,
                            geometries, materials)
      assembled == AssembleHierarchy(parsed.heap, tree, conns, parsed.models,
                                     1)
      bound == bindSkeleton(assembled.heap, parsed.skeletons, conns,
                            geometries, parsed.models)
      lit == createAmbientLight(bound.heap, tree, 1)
      morphed == setupMorphMaterials(lit, parsed.mheap, 1, geometries)
      moved == TransformPass(morphed.heap, 1)
      collapsed == Collapse(moved, 1, AnimationParserParse(tree))
  IN IF parsed.threw THEN failed
     ELSE IF assembled.threw THEN failed
     ELSE IF bound.threw THEN failed
     ELSE [threw |-> FALSE, heap |-> collapsed.heap, root |-> collapsed.root]

\* FBXTreeParser.parse (lines 59-71)
FBXTreeParserParse(tree) ==
  LET failed == [threw |-> TRUE, heap |-> <<>>, root |-> Null]
      conns == parseConnections(tree)
      imgs == parseImages(tree)
      textures == parseTextures(tree, imgs, conns)
      materials == parseMaterials(tree, textures.map, conns, <<>>)
      defs == parseDeformers(tree, conns)
      geometries == GeometryParserParse(tree, defs)
  IN IF textures.threw THEN failed
     ELSE IF materials.threw THEN failed
     ELSE IF defs.threw THEN failed
     ELSE parseScene(tree, conns, defs, geometries, materials.map,
                     materials.heap)

\* the nodes below a root with their types, model IDs, clips and children, in
\* order: a scene without the identities of its objects
RECURSIVE SceneOf(_, _)
SceneOf(heap, root) ==
  [type |-> heap[root].type, ID |-> heap[root].ID,
   animations |-> heap[root].animations,
   children |-> [i \in 1..Len(heap[root].children) |->
                   SceneOf(heap, heap[root].children[i])]]

\* FBXLoader.parse (lines 1280-1304): the error thrown or the scene returned
FBXLoaderParse(buffer) ==
  LET decoded == LoaderDecode(buffer)
  IN IF decoded.threw
     THEN [threw |-> TRUE, error |-> decoded.error, scene |-> <<>>]
     ELSE LET parsed == FBXTreeParserParse(decoded.tree)
          IN IF parsed.threw
             THEN [threw |-> TRUE, error |-> "TypeError", scene |-> <<>>]
             ELSE [threw |-> FALSE, error |-> "",
                   scene |-> SceneOf(parsed.heap, parsed.root)]

----------------------------------------------------------------------------
(* Inputs *)

ModelNode(attrType) ==
  [attrType |-> attrType, LookAtProperty |-> FALSE, Lcl_Translation |-> TRUE]

BinaryHead == <<MagicChunk, VersionChunk(7400)>>

\* Buffers of every head, over a tree of one group model under the root
OneGroupTree(ambient) ==
  [EmptyTree EXCEPT
     !.hasConnections = TRUE,
     !.connections = <<<<1, 0, Undefined>>>>,
     !.Model = (1 :> ModelNode("Null")),
     !.AmbientColor = ambient,
     !.animations = <<"Take 001">>]

LoadBuffers ==
  {[head |-> h, body |-> OneGroupTree(a)] :
     h \in SeqsUpTo(Chunks, MaxHead), a \in {"absent", "black", "color"}}

Init == InitWith(LoadBuffers)

Spec == Init /\ [][Next]_vars

\* Binary buffers whose Connections section is any sequence of triples over
\* two IDs, of which only 1 is an object of the tree (a Model), or is absent
ConnIDs == {1, 2}

ConnLabels == {Undefined, "LookAtProperty"}

ConnTriples == {<<f, t, l>> : f \in ConnIDs, t \in ConnIDs, l \in ConnLabels}

ConnTrees ==
  {[EmptyTree EXCEPT !.hasConnections = TRUE, !.connections = c,
                     !.Model = (1 :> ModelNode("Null"))] :
     c \in SeqsUpTo(ConnTriples, MaxConns)}
  \cup {[EmptyTree EXCEPT !.Model = (1 :> ModelNode("Null"))]}

ConnBuffers == {[head |-> BinaryHead, body |-> t] : t \in ConnTrees}

InitConn == InitWith(ConnBuffers)

SpecConn == InitConn /\ [][Next]_vars

\* Trees of one Texture node 2 with every combination of wrap modes, file
\* extension and UV scaling, with and without TGA handler; the texture has no
\* connection, or is the diffuse map of material 3, with or without image 6
TextureNode(id, wrapU, wrapV, fileName, scaling) ==
  [id |-> id, WrapModeU |-> wrapU, WrapModeV |-> wrapV,
   FileName |-> fileName, Scaling |-> scaling]

MaterialNode(id, shadingModel) == [id |-> id, ShadingModel |-> shadingModel]

WrapModes == {Absent, Present(0), Present(1), Present(2)}

FileNames == {"absent", "png", "tga", "psd"}

Scalings == {[present |-> FALSE, value |-> <<1, 1>>],
             [present |-> TRUE, value |-> <<2, 3>>]}

TexConnections ==
  {<<<<1, 0, Undefined>>>>,
   <<<<2, 3, "DiffuseColor">>, <<3, 1, Undefined>>>>,
   <<<<6, 2, Undefined>>, <<2, 3, "DiffuseColor">>, <<3, 1, Undefined>>>>}

TexTrees ==
  {[EmptyTree EXCEPT
      !.hasConnections = TRUE,
      !.connections = c,
      !.Model = (1 :> ModelNode("Null")),
      !.Texture = (2 :> TextureNode(2, u, v, f, sc)),
      !.Material = (3 :> MaterialNode(3, Present("phong"))),
      !.Video = (6 :> [Content |-> FALSE]),
      !.tgaHandler = h] :
     u \in WrapModes, v \in WrapModes, f \in FileNames, sc \in Scalings,
     h \in BOOLEAN, c \in TexConnections}

TexBuffers == {[head |-> BinaryHead, body |-> t] : t \in TexTrees}

InitTex == InitWith(TexBuffers)

SpecTex == InitTex /\ [][Next]_vars

\* Trees of two Material nodes 3 and 4 with every shading model, with or
\* without Texture node 2, over every sequence of connections that attach
\* textures to the materials and the materials to model 1; 5 is no texture
NoShadingModel == [present |-> FALSE, value |-> "undefined"]

ShadingModels ==
  {NoShadingModel, Present("phong"), Present("Lambert"), Present("Unknown")}

MatTriples ==
  {<<2, 3, "DiffuseColor">>, <<2, 4, "Bump">>, <<5, 3, "DiffuseColor">>,
   <<3, 1, Undefined>>, <<4, 1, Undefined>>, <<1, 0, Undefined>>}

MatTrees ==
  {[EmptyTree EXCEPT
      !.hasConnections = TRUE,
      !.connections = c,
      !.Model = (1 :> ModelNode("Null")),
      !.Texture = t,
      !.Material = (3 :> MaterialNode(3, s3)) @@ (4 :> MaterialNode(4, s4))] :
     c \in SeqsUpTo(MatTriples, MaxMatConns),
     t \in {EmptyMap,
            (2 :> TextureNode(2, Absent, Absent, "png",
                              [present |-> FALSE, value |-> <<1, 1>>]))},
     s3 \in ShadingModels, s4 \in ShadingModels}

MatBuffers == {[head |-> BinaryHead, body |-> t] : t \in MatTrees}

InitMat == InitWith(MatBuffers)

SpecMat == InitMat /\ [][Next]_vars

\* Trees of one Mesh model 1 over every sequence of children among geometry
\* 3, materials 4 and 5, and 7, which is neither; the geometry has or lacks
\* vertex colours, a deformer link and morph targets
GeometryRecord(color, deformer, morph) ==
  [color |-> color, FBX_Deformer |-> deformer, morphPositions |-> morph]

RECURSIVE ChildTriples(_, _)
ChildTriples(children, parent) ==
  IF children = <<>> THEN <<>>
  ELSE <<<<Head(children), parent, Undefined>>>>
       \o ChildTriples(Tail(children), parent)

MeshChildIDs == {3, 4, 5, 7}

MeshTrees ==
  {[EmptyTree EXCEPT
      !.hasConnections = TRUE,
      !.connections = <<<<1, 0, Undefined>>>> \o ChildTriples(c, 1),
      !.Model = (1 :> ModelNode("Mesh")),
      !.Geometry = (3 :> GeometryRecord(col, def, morph)),
      !.Material = (4 :> MaterialNode(4, Present("phong")))
                   @@ (5 :> MaterialNode(5, Present("lambert")))] :
     c \in SeqsUpTo(MeshChildIDs, MaxMeshChildren),
     col \in BOOLEAN, def \in BOOLEAN, morph \in {0, 1}}

MeshBuffers == {[head |-> BinaryHead, body |-> t] : t \in MeshTrees}

InitMesh == InitWith(MeshBuffers)

SpecMesh == InitMesh /\ [][Next]_vars

\* Trees of two models, each a Null or a LimbNode, over every sequence of
\* connections among them and the scene root, with or without ambient colour
\* and animation clips
SceneTriples ==
  {<<1, 0, Undefined>>, <<2, 0, Undefined>>, <<1, 2, Undefined>>,
   <<2, 1, Undefined>>, <<1, 1, Undefined>>}

SceneTrees ==
  {[EmptyTree EXCEPT
      !.hasConnections = TRUE,
      !.connections = c,
      !.Model = (1 :> ModelNode(t1)) @@ (2 :> ModelNode(t2)),
      !.AmbientColor = a,
      !.animations = clips] :
     c \in SeqsUpTo(SceneTriples, MaxSceneConns),
     t1 \in {"Null", "LimbNode"}, t2 \in {"Null", "LimbNode"},
     a \in {"absent", "color"}, clips \in {<<>>, <<"Take 001">>}}

SceneBuffers == {[head |-> BinaryHead, body |-> t] : t \in SceneTrees}

InitScene == InitWith(SceneBuffers)

SpecScene == InitScene /\ [][Next]_vars

\* Trees of one Skin deformer 5 over every sequence of children among the
\* Clusters 7 and 8, the BlendShapeChannel 9 and the model 1, which is no
\* Deformer node; the Skin is or is not connected to geometry 3, Cluster 7
\* has or lacks TransformLink, and Cluster 8 has Indexes with or without
\* Weights
DeformerNode(id, attrType, transformLink, indexes, weights) ==
  [id |-> id, attrType |-> attrType, TransformLink |-> transformLink,
   Indexes |-> indexes, Weights |-> weights, FullWeights |-> TRUE]

SkinChildIDs == {1, 7, 8, 9}

SkinTrees ==
  {[EmptyTree EXCEPT
      !.hasConnections = TRUE,
      !.connections = <<<<1, 0, Undefined>>>>
                      \o (IF attached THEN <<<<5, 3, Undefined>>>> ELSE <<>>)
                      \o ChildTriples(c, 5),
      !.Model = (1 :> ModelNode("Null")),
      !.Geometry = (3 :> GeometryRecord(FALSE, TRUE, 0)),
      !.Deformer =
        (5 :> DeformerNode(5, "Skin", FALSE, FALSE, FALSE))
        @@ (7 :> DeformerNode(7, "Cluster", link7, FALSE, FALSE))
        @@ (8 :> DeformerNode(8, "Cluster", TRUE, TRUE, weights8))
        @@ (9 :> DeformerNode(9, "BlendShapeChannel", FALSE, FALSE, FALSE))] :
     c \in SeqsUpTo(SkinChildIDs, MaxSkinChildren),
     attached \in BOOLEAN, link7 \in BOOLEAN, weights8 \in BOOLEAN}

SkinBuffers == {[head |-> BinaryHead, body |-> t] : t \in SkinTrees}

InitSkin == InitWith(SkinBuffers)

SpecSkin == InitSkin /\ [][Next]_vars

\* Trees of two Skin deformers, 5 with the Clusters 7 and 8 and 6 with the
\* Clusters 8 and 9, and two models: model 1 over every sequence of parents
\* among the scene root and the three Clusters, model 2 without parent or
\* below the scene root, model 1 or Cluster 8
RECURSIVE ParentTriples(_, _)
ParentTriples(child, parents) ==
  IF parents = <<>> THEN <<>>
  ELSE <<<<child, Head(parents), Undefined>>>>
       \o ParentTriples(child, Tail(parents))

BoneParentIDs == {0, 7, 8, 9}

SkinnedConnections ==
  <<<<5, 3, Undefined>>, <<6, 4, Undefined>>, <<7, 5, Undefined>>,
    <<8, 5, Undefined>>, <<8, 6, Undefined>>, <<9, 6, Undefined>>>>

BoneTrees ==
  {[EmptyTree EXCEPT
      !.hasConnections = TRUE,
      !.connections = SkinnedConnections \o ParentTriples(1, p1)
                      \o ParentTriples(2, p2),
      !.Model = (1 :> ModelNode(t1)) @@ (2 :> ModelNode("LimbNode")),
      !.Geometry = (3 :> GeometryRecord(FALSE, TRUE, 0))
                   @@ (4 :> GeometryRecord(FALSE, TRUE, 0)),
      !.Deformer =
        (5 :> DeformerNode(5, "Skin", FALSE, FALSE, FALSE))
        @@ (6 :> DeformerNode(6, "Skin", FALSE, FALSE, FALSE))
        @@ (7 :> DeformerNode(7, "Cluster", TRUE, FALSE, FALSE))
        @@ (8 :> DeformerNode(8, "Cluster", TRUE, FALSE, FALSE))
        @@ (9 :> DeformerNode(9, "Cluster", TRUE, FALSE, FALSE))] :
     p1 \in SeqsUpTo(BoneParentIDs, MaxBoneParents),
     p2 \in {<<>>, <<0>>, <<1>>, <<8>>},
     t1 \in {"LimbNode", "Null"}}

BoneBuffers == {[head |-> BinaryHead, body |-> t] : t \in BoneTrees}

InitBone == InitWith(BoneBuffers)

SpecBone == InitBone /\ [][Next]_vars

\* Two calls of FBXLoader.parse, each on a buffer of its own: a scene of one
\* Group and an ambient light, a scene of two Bones below each other, a
\* scene of a Mesh with its material, and a buffer of unknown format
TwoBonesTree ==
  [EmptyTree EXCEPT
     !.hasConnections = TRUE,
     !.connections = <<<<1, 0, Undefined>>, <<2, 1, Undefined>>>>,
     !.Model = (1 :> ModelNode("LimbNode")) @@ (2 :> ModelNode("LimbNode"))]

OneMeshTree ==
  [EmptyTree EXCEPT
     !.hasConnections = TRUE,
     !.connections = <<<<2, 0, Undefined>>, <<3, 2, Undefined>>,
                       <<4, 2, Undefined>>>>,
     !.Model = (2 :> ModelNode("Mesh")),
     !.Geometry = (3 :> GeometryRecord(FALSE, FALSE, 0)),
     !.Material = (4 :> MaterialNode(4, Present("phong")))]

TwoBuffers ==
  {[head |-> BinaryHead, body |-> OneGroupTree("color")],
   [head |-> BinaryHead, body |-> TwoBonesTree],
   [head |-> BinaryHead, body |-> OneMeshTree],
   [head |-> <<VersionChunk(7400)>>, body |-> OneGroupTree("absent")]}

InitTwo == InitCalls(TwoBuffers, {NewCall(buffer) : buffer \in TwoBuffers})

SpecTwo == InitTwo /\ [][NextTwo]_vars

\* Trees of one BlendShape deformer 5 of geometry 3 over every sequence of
\* children among the BlendShapeChannels 7 and 8 and the Cluster 9, which has
\* or lacks FullWeights; channel 8 has the unlabelled child 11, channel 7 has
\* no child, the unlabelled child 10, the labelled child 10, or the labelled
\* child 10 before the unlabelled child 12
MorphNode(id, attrType, fullWeights) ==
  [id |-> id, attrType |-> attrType, TransformLink |-> TRUE,
   Indexes |-> FALSE, Weights |-> FALSE, FullWeights |-> fullWeights]

MorphChildIDs == {7, 8, 9}

ChannelLinks ==
  {<<>>, <<<<10, 7, Undefined>>>>, <<<<10, 7, "Shape">>>>,
   <<<<10, 7, "Shape">>, <<12, 7, Undefined>>>>}

MorphTrees ==
  {[EmptyTree EXCEPT
      !.hasConnections = TRUE,
      !.connections = <<<<1, 0, Undefined>>, <<5, 3, Undefined>>,
                        <<11, 8, Undefined>>>>
                      \o ChildTriples(c, 5) \o links,
      !.Model = (1 :> ModelNode("Null")),
      !.Geometry = (3 :> GeometryRecord(FALSE, FALSE, 0)),
      !.Deformer =
        (5 :> MorphNode(5, "BlendShape", TRUE))
        @@ (7 :> MorphNode(7, "BlendShapeChannel", TRUE))
        @@ (8 :> MorphNode(8, "BlendShapeChannel", TRUE))
        @@ (9 :> MorphNode(9, "Cluster", weights9))] :
     c \in SeqsUpTo(MorphChildIDs, MaxMorphChildren),
     links \in ChannelLinks, weights9 \in BOOLEAN}

MorphBuffers == {[head |-> BinaryHead, body |-> t] : t \in MorphTrees}

InitMorph == InitWith(MorphBuffers)

SpecMorph == InitMorph /\ [][Next]_vars

\* Trees of the Skin deformer 5 of geometry 3 with the Cluster 7, and two
\* models of every attrType of the dispatch and one it does not know: model 1
\* below the scene root, below Cluster 7 or both, with or without the
\* geometry 3 as its child; model 2 below the scene root, model 1 or
\* Cluster 7
AttrTypes ==
  {"Camera", "Light", "Mesh", "NurbsCurve", "LimbNode", "Root", "Null",
   "Marker"}

ModelTrees ==
  {[EmptyTree EXCEPT
      !.hasConnections = TRUE,
      !.connections = <<<<5, 3, Undefined>>, <<7, 5, Undefined>>>>
                      \o ParentTriples(1, p1) \o ParentTriples(2, p2)
                      \o (IF owns THEN <<<<3, 1, Undefined>>>> ELSE <<>>),
      !.Model = (1 :> ModelNode(t1)) @@ (2 :> ModelNode(t2)),
      !.Geometry = (3 :> GeometryRecord(FALSE, FALSE, 0)),
      !.Deformer =
        (5 :> DeformerNode(5, "Skin", FALSE, FALSE, FALSE))
        @@ (7 :> DeformerNode(7, "Cluster", TRUE, FALSE, FALSE))] :
     p1 \in {<<0>>, <<7>>, <<0, 7>>}, p2 \in {<<0>>, <<1>>, <<7>>},
     t1 \in AttrTypes, t2 \in AttrTypes, owns \in BOOLEAN}

ModelBuffers == {[head |-> BinaryHead, body |-> t] : t \in ModelTrees}

InitModels == InitWith(ModelBuffers)

SpecModels == InitModels /\ [][Next]_vars

\* Trees of three Null models: model 1 over every sequence of parents among
\* the scene root, the three models and the Geometry 9, model 2 below the
\* scene root or model 1, model 3 below the scene root or model 2
ModelParentIDs == {0, 1, 2, 3, 9}

ParentTrees ==
  {[EmptyTree EXCEPT
      !.hasConnections = TRUE,
      !.connections = ParentTriples(1, p1) \o ParentTriples(2, p2)
                      \o ParentTriples(3, p3),
      !.Model = (1 :> ModelNode("Null")) @@ (2 :> ModelNode("Null"))
                @@ (3 :> ModelNode("Null")),
      !.Geometry = (9 :> GeometryRecord(FALSE, FALSE, 0))] :
     p1 \in SeqsUpTo(ModelParentIDs, MaxModelParents),
     p2 \in {<<0>>, <<1>>}, p3 \in {<<0>>, <<2>>}}

ParentBuffers == {[head |-> BinaryHead, body |-> t] : t \in ParentTrees}

InitParents == InitWith(ParentBuffers)

SpecParents == InitParents /\ [][Next]_vars

\* Trees of one Camera or Light model below the scene root, over every
\* sequence of children among the Geometry 3 and the NodeAttribute nodes 5 (a
\* perspective camera, a directional light) and 6 (an orthographic camera, a
\* spot light, with or without NearPlane)
AttributeNode(projection, lightType, nearPlane) ==
  [CameraProjectionType |-> projection, LightType |-> lightType,
   NearPlane |-> nearPlane, FarPlane |-> FALSE]

AttrChildIDs == {3, 5, 6}

AttrTrees ==
  {[EmptyTree EXCEPT
      !.hasConnections = TRUE,
      !.connections = <<<<1, 0, Undefined>>>> \o ChildTriples(c, 1),
      !.Model = (1 :> ModelNode(t1)),
      !.Geometry = (3 :> GeometryRecord(FALSE, FALSE, 0)),
      !.NodeAttribute =
        (5 :> AttributeNode(Absent, Present(1), FALSE))
        @@ (6 :> AttributeNode(Present(1), Present(2), near6))] :
     c \in SeqsUpTo(AttrChildIDs, MaxAttrChildren),
     t1 \in {"Camera", "Light"}, near6 \in BOOLEAN}

AttrBuffers == {[head |-> BinaryHead, body |-> t] : t \in AttrTrees}

InitAttr == InitWith(AttrBuffers)

SpecAttr == InitAttr /\ [][Next]_vars

\* Trees of the Skin deformer 5 with the Cluster 7 over every sequence of
\* parents among the Geometries 3 and 4, and two Mesh models
\* below the scene root, each owning one of the two geometries, which carry
\* deformer linkage or not
SkinParentIDs == {3, 4}

BindTrees ==
  {[EmptyTree EXCEPT
      !.hasConnections = TRUE,
      !.connections = <<<<1, 0, Undefined>>, <<2, 0, Undefined>>,
                        <<g1, 1, Undefined>>, <<g2, 2, Undefined>>,
                        <<7, 5, Undefined>>>>
                      \o ParentTriples(5, p5),
      !.Model = (1 :> ModelNode("Mesh")) @@ (2 :> ModelNode("Mesh")),
      !.Geometry = (3 :> GeometryRecord(FALSE, d3, 0))
                   @@ (4 :> GeometryRecord(FALSE, d4, 0)),
      !.Deformer =
        (5 :> DeformerNode(5, "Skin", FALSE, FALSE, FALSE))
        @@ (7 :> DeformerNode(7, "Cluster", TRUE, FALSE, FALSE))] :
     p5 \in SeqsUpTo(SkinParentIDs, MaxSkinParents),
     g1 \in {3, 4}, g2 \in {3, 4}, d3 \in BOOLEAN, d4 \in BOOLEAN}

BindBuffers == {[head |-> BinaryHead, body |-> t] : t \in BindTrees}

InitBind == InitWith(BindBuffers)

SpecBind == InitBind /\ [][Next]_vars

\* Trees of three Mesh models, each with a geometry of its own that has
\* morph positions or not, and the materials 4 and 5: models 1 and 2 use
\* none, one, both or one of them twice, model 3 uses one; models 1 and 2 are
\* below the scene root, model 3 is below the scene root or model 1
SharedMaterials == {<<>>, <<4>>, <<5>>, <<4, 5>>, <<4, 4>>}

ShareTrees ==
  {[EmptyTree EXCEPT
      !.hasConnections = TRUE,
      !.connections = <<<<1, 0, Undefined>>, <<2, 0, Undefined>>,
                        <<3, below, Undefined>>, <<11, 1, Undefined>>,
                        <<12, 2, Undefined>>, <<13, 3, Undefined>>>>
                      \o ChildTriples(c1, 1) \o ChildTriples(c2, 2)
                      \o ChildTriples(c3, 3),
      !.Model = (1 :> ModelNode("Mesh")) @@ (2 :> ModelNode("Mesh"))
                @@ (3 :> ModelNode("Mesh")),
      !.Geometry = (11 :> GeometryRecord(FALSE, FALSE, m1))
                   @@ (12 :> GeometryRecord(FALSE, FALSE, m2))
                   @@ (13 :> GeometryRecord(FALSE, FALSE, m3)),
      !.Material = (4 :> MaterialNode(4, Present("phong")))
                   @@ (5 :> MaterialNode(5, Present("lambert")))] :
     c1 \in SharedMaterials, c2 \in SharedMaterials, c3 \in {<<4>>, <<5>>},
     m1 \in {0, 1}, m2 \in {0, 1}, m3 \in {0, 1}, below \in {0, 1}}

ShareBuffers == {[head |-> BinaryHead, body |-> t] : t \in ShareTrees}

InitShare == InitWith(ShareBuffers)

SpecShare == InitShare /\ [][Next]_vars

\* One call of FBXLoader.load on each of the buffers of Spec, with every
\* combination of an onLoad and an onError that returns, throws or was not
\* given
Callbacks == {"returns", "throws", "absent"}

InitLoad ==
  InitLoads(LoadBuffers, {NoCall},
            {NewLoad(onLoad, onError) :
               onLoad \in Callbacks, onError \in Callbacks})

SpecLoad == InitLoad /\ [][NextLoad]_vars

----------------------------------------------------------------------------
(* Properties *)

Ran(stage) == stage \in Range(ran)

\* the raw connection triples of the buffer's tree
RawConnections == FBXBuffer.body.connections

\* the (to, label) of the triples whose from is x, in input order
RECURSIVE ParentsIn(_, _)
ParentsIn(raw, x) ==
  IF raw = <<>> THEN <<>>
  ELSE (IF Head(raw)[1] = x
        THEN <<Relationship(Head(raw)[2], Head(raw)[3])>> ELSE <<>>)
       \o ParentsIn(Tail(raw), x)

\* the (from, label) of the triples whose to is x, in input order
RECURSIVE ChildrenIn(_, _)
ChildrenIn(raw, x) ==
  IF raw = <<>> THEN <<>>
  ELSE (IF Head(raw)[2] = x
        THEN <<Relationship(Head(raw)[1], Head(raw)[3])>> ELSE <<>>)
       \o ChildrenIn(Tail(raw), x)

\* C1: once parseConnections has run, every input triple (from, to, label)
\* has an entry for from and an entry for to in the graph, with (to, label)
\* among the parents of from and (from, label) among the children of to.
C1_EdgesBothWays ==
  Ran("parseConnections") =>
    \A i \in DOMAIN RawConnections :
      LET from == RawConnections[i][1]
          to == RawConnections[i][2]
          label == RawConnections[i][3]
      IN /\ from \in DOMAIN connections
         /\ to \in DOMAIN connections
         /\ Relationship(to, label) \in Range(connections[from].parents)
         /\ Relationship(from, label) \in Range(connections[to].children)

\* an input whose only triple goes from 2, the ID of no object of the tree,
\* to 1 has been processed and both have their entry
C1_Witness ==
  /\ Ran("parseConnections")
  /\ RawConnections = <<<<2, 1, "LookAtProperty">>>>
  /\ 2 \notin DOMAIN fbxTree.Model
  /\ DOMAIN connections = {1, 2}
  /\ connections[2].parents = <<Relationship(1, "LookAtProperty")>>

\* C2: once parseConnections has run, the graph has an entry exactly for the
\* IDs of the input triples, the parents of x are exactly the (to, label) of
\* the triples from x in input order and its children exactly the
\* (from, label) of the triples to x in input order, repetitions included.
C2_OrderedNoDedup ==
  Ran("parseConnections") =>
    /\ DOMAIN connections =
         {RawConnections[i][1] : i \in DOMAIN RawConnections}
         \cup {RawConnections[i][2] : i \in DOMAIN RawConnections}
    /\ \A x \in DOMAIN connections :
         /\ connections[x].parents = ParentsIn(RawConnections, x)
         /\ connections[x].children = ChildrenIn(RawConnections, x)

\* the same triple twice, then another from the same ID: two equal edges
\* followed by the third, on both sides
C2_Witness ==
  /\ Ran("parseConnections")
  /\ RawConnections = <<<<1, 2, Undefined>>, <<1, 2, Undefined>>,
                        <<1, 1, "LookAtProperty">>>>
  /\ connections[1].parents =
       <<Relationship(2, Undefined), Relationship(2, Undefined),
         Relationship(1, "LookAtProperty")>>
  /\ Len(connections[2].children) = 2

\* C4: a call of FBXLoader.parse on a buffer that matches neither the binary
\* magic nor the ASCII marker has, once it has acted, thrown the format
\* error: no decoder and no stage has run, no tree, graph, scene root or
\* node exists, and no scene is returned.
C4_UnknownFormatFails ==
  (~isFbxFormatBinary(FBXBuffer) /\ ~isFbxFormatASCII(FBXBuffer)
     /\ pc # "parse") =>
    /\ pc = "error"
    /\ result = Threw("FormatError")
    /\ ran = <<>>
    /\ fbxTree = NoTree
    /\ connections = EmptyMap
    /\ sceneGraph = Null
    /\ nodes = <<>>

\* a buffer whose magic chunk is not at its start has been rejected
C4_Witness ==
  /\ FBXBuffer.head = <<VersionChunk(7400), MagicChunk>>
  /\ pc = "error"
  /\ result = Threw("FormatError")

\* the buffer is taken for ASCII FBX and declares a version
AsciiWithVersion ==
  /\ ~isFbxFormatBinary(FBXBuffer)
  /\ isFbxFormatASCII(FBXBuffer)
  /\ hasFbxVersion(FBXBuffer)

\* C5: a call on an ASCII buffer that declares a version below 7000 has, once
\* it has acted, thrown the unsupported-version error with no decoder and no
\* stage run and no scene; a call on an ASCII buffer that declares 7000 or
\* more runs the text decoder and never ends in that error.
C5_AsciiVersionFloor ==
  (AsciiWithVersion /\ pc # "parse") =>
    IF getFbxVersion(FBXBuffer) < 7000
    THEN /\ pc = "error"
         /\ result = Threw("UnsupportedVersionError")
         /\ ran = <<>>
         /\ fbxTree = NoTree
         /\ sceneGraph = Null
    ELSE /\ Len(ran) >= 1 /\ ran[1] = "TextParser"
         /\ result.error # "UnsupportedVersionError"

\* an ASCII buffer declaring version 6000 has been rejected
C5_Witness ==
  /\ FBXBuffer.head = <<MarkerChunk, VersionChunk(6000)>>
  /\ pc = "error"
  /\ result = Threw("UnsupportedVersionError")

\* C3: a Material node whose ID has no entry in the connection graph has no
\* entry in the material registry, whatever its shading model; every key of
\* the registry is the key of a Material node whose ID has an entry in the
\* connection graph.
C3_UnusedMaterialSkipped ==
  Ran("parseMaterials") =>
    /\ \A k \in DOMAIN fbxTree.Material :
         fbxTree.Material[k].id \notin DOMAIN connections
           => k \notin DOMAIN materialMap
    /\ \A k \in DOMAIN materialMap :
         /\ k \in DOMAIN fbxTree.Material
         /\ fbxTree.Material[k].id \in DOMAIN connections

\* parseMaterials has returned a registry that holds the connected material 3
\* and not material 4, which has a shading model and no connection
C3_Witness ==
  /\ Ran("parseMaterials") /\ pc # "error"
  /\ fbxTree.Material[4].ShadingModel = Present("Lambert")
  /\ 4 \notin DOMAIN connections
  /\ DOMAIN materialMap = {3}

\* C8: the U wrap of a texture is repeat when WrapModeU is absent or 0 and
\* clamp otherwise, and the V wrap is decided in the same way by WrapModeV
\* alone.
C8_WrapModesIndependent ==
  \A id \in DOMAIN textureMap :
    LET node == fbxTree.Texture[id]
    IN /\ textureMap[id].wrapS =
            IF ~node.WrapModeU.present \/ node.WrapModeU.value = 0
            THEN "RepeatWrapping" ELSE "ClampToEdgeWrapping"
       /\ textureMap[id].wrapT =
            IF ~node.WrapModeV.present \/ node.WrapModeV.value = 0
            THEN "RepeatWrapping" ELSE "ClampToEdgeWrapping"

\* a texture with WrapModeU = 1 and WrapModeV = 0 has been parsed to
\* (clamp, repeat)
C8_Witness ==
  /\ 2 \in DOMAIN textureMap
  /\ fbxTree.Texture[2].WrapModeU = Present(1)
  /\ fbxTree.Texture[2].WrapModeV = Present(0)
  /\ textureMap[2].wrapS = "ClampToEdgeWrapping"
  /\ textureMap[2].wrapT = "RepeatWrapping"

\* the IDs of the model's connection-graph children that are keys of the
\* material registry, in connection order
MaterialChildren(id) ==
  LET kids == connections[id].children
      ids == [i \in 1..Len(kids) |-> kids[i].ID]
  IN SelectSeq(ids, LAMBDA x : x \in DOMAIN materialMap)

\* createMesh has returned the node of model id and no later stage has
\* touched its material
MeshCreated(id) ==
  /\ pc \in {"models", "bind", "ambient", "morph"}
  /\ id \in DOMAIN modelMap
  /\ isMesh(nodes[modelMap[id]])

\* C6: the material of the node createMesh returns is, with two or more
\* children in the material registry, the list of their registry materials in
\* connection order; with one such child, that single material; with none, a
\* new gray MeshPhongMaterial that is not in the registry.
C6_MeshMaterials ==
  \A id \in DOMAIN modelMap :
    MeshCreated(id) =>
      LET mesh == nodes[modelMap[id]]
          keep == MaterialChildren(id)
          candidates == [i \in 1..Len(keep) |-> materialMap[keep[i]]]
      IN /\ Len(candidates) >= 2 =>
              mesh.material = candidates /\ mesh.materialIsArray
         /\ Len(candidates) = 1 =>
              mesh.material = candidates /\ ~mesh.materialIsArray
         /\ Len(candidates) = 0 =>
              /\ Len(mesh.material) = 1 /\ ~mesh.materialIsArray
              /\ mesh.material[1] \notin Range(materialMap)
              /\ matHeap[mesh.material[1]].type = "MeshPhongMaterial"
              /\ matHeap[mesh.material[1]].color = DefaultGray

\* a mesh whose children are material 5, the geometry and material 4 has the
\* list of the materials of 5 and 4, in this order
C6_Witness ==
  /\ MeshCreated(1)
  /\ MaterialChildren(1) = <<5, 4>>
  /\ materialMap[5] # materialMap[4]
  /\ nodes[modelMap[1]].material = <<materialMap[5], materialMap[4]>>
  /\ nodes[modelMap[1]].materialIsArray

\* C7: the root parseScene returns is the only child of the scene root when
\* the scene root has exactly one child and this child is a Group, and the
\* scene root otherwise; the returned root carries the clips of the
\* animation parser.
C7_CollapseRule ==
  [][(pc = "animations" /\ pc' = "done") =>
       LET kids == nodes[sceneGraph].children
       IN /\ sceneGraph' = IF Len(kids) = 1 /\ nodes[kids[1]].type = "Group"
                           THEN kids[1] ELSE sceneGraph
          /\ result' = Returned(sceneGraph')
          /\ nodes'[sceneGraph'].animations.set
          /\ nodes'[sceneGraph'].animations.clips = fbxTree.animations]_vars

\* the loader has returned the Group of model 2, the only child of the scene
\* root, and this Group carries the clip list
C7_Witness ==
  /\ pc = "done"
  /\ result = Returned(modelMap[2])
  /\ nodes[1].children = <<modelMap[2]>>
  /\ nodes[modelMap[2]].type = "Group"
  /\ nodes[modelMap[2]].children = <<modelMap[1]>>
  /\ nodes[modelMap[2]].animations.clips = <<"Take 001">>

\* parseDeformers has returned
DeformersReturned ==
  Ran("parseDeformers") /\ ~(pc = "error" /\ ran[Len(ran)] = "parseDeformers")

\* the IDs of the Cluster deformers among the connection-graph children of
\* the deformer, in connection order
ClusterChildren(id) ==
  LET kids == connections[id].children
      ids == [i \in 1..Len(kids) |-> kids[i].ID]
  IN SelectSeq(ids, LAMBDA x : /\ x \in DOMAIN fbxTree.Deformer
                               /\ fbxTree.Deformer[x].attrType = "Cluster")

\* the Skin is connected to a geometry, its children are Deformer nodes, and
\* its Clusters have a TransformLink and, with Indexes, Weights
SkinWellFormed(id) ==
  /\ HasEntry(connections, id)
  /\ connections[id].parents # <<>>
  /\ \A i \in 1..Len(connections[id].children) :
       LET x == connections[id].children[i].ID
       IN /\ x \in DOMAIN fbxTree.Deformer
          /\ fbxTree.Deformer[x].attrType = "Cluster" =>
               /\ fbxTree.Deformer[x].TransformLink
               /\ fbxTree.Deformer[x].Indexes => fbxTree.Deformer[x].Weights

Skins == {id \in DOMAIN fbxTree.Deformer :
            fbxTree.Deformer[id].attrType = "Skin"}

\* C9: the raw skeleton of a Skin deformer has one raw bone per Cluster child,
\* the i-th carrying the ID of the i-th Cluster child in connection order;
\* children that are no Clusters add no raw bone; the joint list is empty
\* until parseModels runs.  The raw skeleton is produced for every Skin that
\* is well formed.
C9_RawBonesFollowClusters ==
  /\ DeformersReturned =>
       \A id \in Skins :
         /\ id \in DOMAIN deformers.skeletons
         /\ LET rawBones == deformers.skeletons[id].rawBones
            IN [i \in 1..Len(rawBones) |-> rawBones[i].ID]
                 = ClusterChildren(id)
         /\ pc \in {"geometry", "scene"} =>
              deformers.skeletons[id].bones = <<>>
  /\ (Ran("parseDeformers") /\ ~DeformersReturned) =>
       \E id \in Skins : ~SkinWellFormed(id)

\* the Skin with the children 8, 9 and 7, in this order, has the raw bones
\* of 8 and 7 and no joint yet
C9_Witness ==
  /\ pc = "geometry"
  /\ Len(connections[5].children) = 3
  /\ [i \in 1..3 |-> connections[5].children[i].ID] = <<8, 9, 7>>
  /\ Len(deformers.skeletons[5].rawBones) = 2
  /\ deformers.skeletons[5].rawBones[1].ID = 8
  /\ deformers.skeletons[5].rawBones[2].ID = 7
  /\ deformers.skeletons[5].bones = <<>>

\* the matches of the model's parent connections with raw bones: the parent
\* position, the raw skeleton and the index of the raw bone
RawBoneMatches(id) ==
  LET positions ==
        UNION {{<<p, s, i>> :
                  i \in 1..Len(deformers.skeletons[s].rawBones)} :
               p \in 1..Len(connections[id].parents),
               s \in DOMAIN deformers.skeletons}
  IN {m \in positions :
        deformers.skeletons[m[2]].rawBones[m[3]].ID
          = connections[id].parents[m[1]].ID}

\* the joints constructed for the model
JointsOf(id) ==
  {h \in DOMAIN nodes : nodes[h].type = "Bone" /\ nodes[h].ID = id}

\* the joint the raw skeleton holds at the index of the matching raw bone
JointAt(m) == deformers.skeletons[m[2]].bones[m[3]]

\* parseModels has just registered model id
JustParsed(id) ==
  /\ pc = "models"
  /\ cursor > 1
  /\ cursor - 1 <= Len(ModelIDs)
  /\ ModelIDs[cursor - 1] = id

Assembled ==
  pc \in {"bind", "ambient", "morph", "transform", "animations"}

\* the registered nodes of the connection-graph parents of the model
ResolvedParents(id) ==
  {modelMap[connections[id].parents[i].ID] :
     i \in {k \in 1..Len(connections[id].parents) :
              connections[id].parents[k].ID \in DOMAIN modelMap}}

\* the nodes that list the node among their children, once per listing
ParentListings(n) ==
  {l \in (DOMAIN nodes) \X (1..Len(nodes)) :
     l[2] <= Len(nodes[l[1]].children) /\ nodes[l[1]].children[l[2]] = n}

\* C11 as stated: after hierarchy assembly every registered node has exactly
\* one parent, a registered node of one of its connection-graph parents, or
\* the scene root when none of its connection-graph parents is registered.
C11_Original ==
  Assembled =>
    \A id \in DOMAIN modelMap :
      LET n == modelMap[id]
      IN /\ Cardinality(ParentListings(n)) = 1
         /\ \A l \in ParentListings(n) : l[1] = nodes[n].parent
         /\ IF ResolvedParents(id) = {}
            THEN nodes[n].parent = sceneGraph
            ELSE nodes[n].parent \in ResolvedParents(id)

\* C11: after hierarchy assembly every registered node has exactly one
\* parent: a registered node, other than itself, of one of its
\* connection-graph parents, or the scene root when no connection-graph
\* parent is a registered model other than itself.
C11_OneParent ==
  Assembled =>
    \A id \in DOMAIN modelMap :
      LET n == modelMap[id]
      IN /\ Cardinality(ParentListings(n)) = 1
         /\ \A l \in ParentListings(n) : l[1] = nodes[n].parent
         /\ IF ResolvedParents(id) \ {n} = {}
            THEN nodes[n].parent = sceneGraph
            ELSE nodes[n].parent \in ResolvedParents(id) \ {n}

\* model 1, connected to the scene root and then to model 2, is the child of
\* model 2 only, and model 2 is the child of the scene root
C11_Witness ==
  /\ pc = "bind"
  /\ DOMAIN modelMap = {1, 2}
  /\ Len(connections[1].parents) = 2
  /\ connections[1].parents[2].ID = 2
  /\ nodes[modelMap[1]].parent = modelMap[2]
  /\ nodes[modelMap[2]].parent = sceneGraph
  /\ nodes[sceneGraph].children = <<modelMap[2]>>

\* the call that ended with res on the buffer ended as FBXLoader.parse ends
\* on this buffer when no other call runs
EndsAsAlone(res, buffer) ==
  LET alone == FBXLoaderParse(buffer)
  IN IF res.status = "threw"
     THEN alone.threw /\ alone.error = res.error
     ELSE ~alone.threw /\ SceneOf(nodes, res.scene) = alone.scene

\* C12: whatever the stages of two parse calls on buffers of their own are
\* interleaved like, each call throws the error or returns the scene that it
\* throws or returns when it runs alone.
C12_CallsIndependent ==
  /\ pc \in {"done", "error"} => EndsAsAlone(result, FBXBuffer)
  /\ suspended.pc \in {"done", "error"} =>
       EndsAsAlone(suspended.result, suspended.FBXBuffer)

BlendShapes == {id \in DOMAIN fbxTree.Deformer :
                  fbxTree.Deformer[id].attrType = "BlendShape"}

\* the IDs of the BlendShapeChannel deformers among the connection-graph
\* children of the deformer, in connection order
ChannelChildren(id) ==
  LET kids == connections[id].children
      ids == [i \in 1..Len(kids) |-> kids[i].ID]
  IN SelectSeq(ids, LAMBDA x : /\ x \in DOMAIN fbxTree.Deformer
                               /\ fbxTree.Deformer[x].attrType
                                    = "BlendShapeChannel")

\* the IDs of the children the channel is connected to without relationship
\* label, in connection order
UnlabelledChildren(id) ==
  LET kids == connections[id].children
      plain == SelectSeq(kids, LAMBDA k : k.relationship = Undefined)
  IN [i \in 1..Len(plain) |-> plain[i].ID]

\* every child of every BlendShape deformer is a Deformer node with
\* FullWeights: parseMorphTargets can read the fields of lines 629-634
MorphNodesReadable ==
  \A id \in BlendShapes :
    /\ HasEntry(connections, id)
    /\ \A i \in 1..Len(connections[id].children) :
         LET x == connections[id].children[i].ID
         IN x \in DOMAIN fbxTree.Deformer /\ fbxTree.Deformer[x].FullWeights

\* C13: a BlendShapeChannel child of a BlendShape deformer that has no child
\* connection without relationship label does not stop the parse:
\* parseDeformers returns and the parse goes on to the later stages.
C13_MorphWithoutGeometryNonFatal ==
  (/\ Ran("parseDeformers")
   /\ MorphNodesReadable
   /\ \E id \in BlendShapes :
        \E i \in 1..Len(ChannelChildren(id)) :
          UnlabelledChildren(ChannelChildren(id)[i]) = <<>>)
    => DeformersReturned

\* C18: the raw morph targets of a BlendShape deformer are one per
\* BlendShapeChannel child, in connection order, each with the ID of the
\* channel's first child connection without relationship label as its
\* geometry ID; a child that is no BlendShapeChannel adds no entry and leaves
\* the entries of the other children in place.
C18_OneTargetPerChannel ==
  DeformersReturned =>
    \A id \in BlendShapes :
      /\ id \in DOMAIN deformers.morphTargets
      /\ deformers.morphTargets[id].rawTargets.defined
      /\ LET list == deformers.morphTargets[id].rawTargets.list
             channels == ChannelChildren(id)
         IN /\ Len(list) = Len(channels)
            /\ \A i \in 1..Len(list) :
                 /\ list[i].id = channels[i]
                 /\ UnlabelledChildren(channels[i]) # <<>>
                 /\ list[i].geoID = UnlabelledChildren(channels[i])[1]

\* parseModels has returned its registry
ModelsReturned ==
  \/ Ran("hierarchy")
  \/ pc = "models" /\ cursor > Len(ModelIDs)

\* C14: the model registry holds one node per Model node, under the model's
\* ID and carrying it, no node twice; a model one of whose connection-graph
\* parents is a raw bone is a joint whatever its attrType; any other model is
\* a joint without children at its construction when its attrType is LimbNode
\* or Root, and a group when its attrType is none of Camera, Light, Mesh,
\* NurbsCurve, LimbNode, Root.
C14_ModelDispatch ==
  IF ~Ran("parseScene") THEN DOMAIN modelMap = {}
  ELSE
    /\ DOMAIN modelMap \subseteq DOMAIN fbxTree.Model
    /\ ModelsReturned => DOMAIN modelMap = DOMAIN fbxTree.Model
    /\ \A a, b \in DOMAIN modelMap : a # b => modelMap[a] # modelMap[b]
    /\ \A id \in DOMAIN modelMap :
         LET model == nodes[modelMap[id]]
             attrType == fbxTree.Model[id].attrType
         IN /\ model.ID = id
            /\ RawBoneMatches(id) # {} => model.type = "Bone"
            /\ (/\ RawBoneMatches(id) = {}
                /\ attrType \in {"LimbNode", "Root"}) =>
                 /\ model.type = "Bone"
                 /\ JustParsed(id) => model.children = <<>>
            /\ (/\ RawBoneMatches(id) = {}
                /\ attrType \notin {"Camera", "Light", "Mesh", "NurbsCurve",
                                    "LimbNode", "Root"}) =>
                 model.type = "Group"

\* parseModels has returned with a Mesh model below a raw bone that is a
\* joint and a model of unknown attrType that is a group
C14_Witness ==
  /\ ModelsReturned
  /\ DOMAIN modelMap = {1, 2}
  /\ fbxTree.Model[1].attrType = "Mesh"
  /\ RawBoneMatches(1) # {}
  /\ nodes[modelMap[1]].type = "Bone"
  /\ fbxTree.Model[2].attrType = "Marker"
  /\ RawBoneMatches(2) = {}
  /\ nodes[modelMap[2]].type = "Group"

\* the registered nodes of the model's parent entries that resolve to a
\* registered model outside the set, in connection order
ResolvedEntries(id, except) ==
  LET ids == [i \in 1..Len(connections[id].parents) |->
                connections[id].parents[i].ID]
      kept == SelectSeq(ids, LAMBDA x : x \in DOMAIN modelMap
                                        /\ modelMap[x] \notin except)
  IN [i \in 1..Len(kept) |-> modelMap[kept[i]]]

\* the node is attached to the last of the entries and listed among the
\* children of no other node of the entries
AttachedToLast(n, entries) ==
  LET last == entries[Len(entries)]
  IN /\ nodes[n].parent = last
     /\ \A i \in 1..Len(entries) :
          entries[i] # last => n \notin Range(nodes[entries[i]].children)

\* C15 as stated: after hierarchy assembly a model with several parent
\* entries that resolve to registered models is attached to the last of them
\* in connection order and is the child of none of the earlier ones.
C15_Original ==
  Assembled =>
    \A id \in DOMAIN modelMap :
      Len(ResolvedEntries(id, {})) >= 2 =>
        AttachedToLast(modelMap[id], ResolvedEntries(id, {}))

\* C15: after hierarchy assembly a model with several parent entries that
\* resolve to registered models other than itself is attached to the last of
\* them in connection order and is the child of none of the earlier ones.
C15_LastParentWins ==
  Assembled =>
    \A id \in DOMAIN modelMap :
      Len(ResolvedEntries(id, {modelMap[id]})) >= 2 =>
        AttachedToLast(modelMap[id], ResolvedEntries(id, {modelMap[id]}))

\* model 1, connected to model 2, the scene root and model 3 in this order,
\* is the only child of model 3 and no child of model 2
C15_Witness ==
  /\ pc = "bind"
  /\ DOMAIN modelMap = {1, 2, 3}
  /\ [i \in 1..Len(connections[1].parents) |-> connections[1].parents[i].ID]
       = <<2, 0, 3>>
  /\ nodes[modelMap[1]].parent = modelMap[3]
  /\ nodes[modelMap[3]].children = <<modelMap[1]>>
  /\ nodes[modelMap[2]].children = <<>>

\* the IDs of the NodeAttribute nodes among the connection-graph children of
\* the model, in connection order
AttributeChildren(id) ==
  LET kids == connections[id].children
      ids == [i \in 1..Len(kids) |-> kids[i].ID]
  IN SelectSeq(ids, LAMBDA x : x \in DOMAIN fbxTree.NodeAttribute)

\* the class of the node createCamera or createLight builds from the
\* attribute
ClassFrom(attrType, attribute) ==
  IF attrType = "Camera"
  THEN IF attribute.CameraProjectionType.present
          /\ attribute.CameraProjectionType.value = 1
       THEN "OrthographicCamera" ELSE "PerspectiveCamera"
  ELSE LightClass(IF attribute.LightType.present
                  THEN attribute.LightType.value ELSE 0)

\* the registered Camera or Light model with NodeAttribute children is built
\* from the attribute child at the position
BuiltFromChild(id, position) ==
  LET attrs == AttributeChildren(id)
      chosen == IF position = "first" THEN attrs[1] ELSE attrs[Len(attrs)]
  IN /\ nodes[modelMap[id]].attribute = chosen
     /\ nodes[modelMap[id]].type
          = ClassFrom(fbxTree.Model[id].attrType,
                      fbxTree.NodeAttribute[chosen])

\* a registered model that createCamera or createLight has built
CameraOrLight(id) ==
  /\ id \in DOMAIN modelMap
  /\ fbxTree.Model[id].attrType \in {"Camera", "Light"}
  /\ RawBoneMatches(id) = {}
  /\ AttributeChildren(id) # <<>>

\* C16 as stated: a Camera or Light model with several NodeAttribute children
\* is built from the attribute child that is first in connection order.
C16_Original ==
  Ran("parseScene") =>
    \A id \in DOMAIN fbxTree.Model :
      CameraOrLight(id) => BuiltFromChild(id, "first")

\* C16: a Camera or Light model with several NodeAttribute children is built
\* from the attribute child that is last in connection order.
C16_LastAttributeWins ==
  Ran("parseScene") =>
    \A id \in DOMAIN fbxTree.Model :
      CameraOrLight(id) => BuiltFromChild(id, "last")

\* the Light model with the attribute children 6 (a spot light) and then 5 (a
\* directional light) is registered as a directional light
C16_Witness ==
  /\ Ran("hierarchy")
  /\ fbxTree.Model[1].attrType = "Light"
  /\ AttributeChildren(1) = <<6, 5>>
  /\ nodes[modelMap[1]].type = "DirectionalLight"

\* bindSkeleton has returned
SkeletonsBound == Ran("bindSkeleton") /\ pc # "bind"
                  /\ ~(pc = "error" /\ ran[Len(ran)] = "bindSkeleton")

\* the models that own the geometry: the registered models among its
\* connection-graph parents
OwnersOf(geoID) ==
  IF ~HasEntry(connections, geoID) THEN {}
  ELSE {connections[geoID].parents[i].ID :
          i \in 1..Len(connections[geoID].parents)} \cap DOMAIN modelMap

\* C17: the raw skeleton of a Skin deformer with more than one
\* connection-graph parent records the ID of its first parent as its geometry
\* ID, and once bindSkeleton has returned, the models bound to the skeleton
\* are models that own the geometry of the recorded ID: a model that owns
\* only a geometry that is a later parent of the skeleton is not bound to it.
C17_BindsRecordedGeometryOnly ==
  DeformersReturned =>
    \A s \in DOMAIN deformers.skeletons :
      Len(connections[s].parents) > 1 =>
        /\ deformers.skeletons[s].geometryID = connections[s].parents[1].ID
        /\ SkeletonsBound =>
             \A id \in DOMAIN modelMap :
               nodes[modelMap[id]].skeleton = s =>
                 id \in OwnersOf(deformers.skeletons[s].geometryID)

\* the mesh nodes of the scene
SceneMeshes(heap) ==
  {n \in Range(Traverse(heap, sceneGraph)) : isMesh(heap[n])}

\* the mesh nodes of the scene whose geometry has morph positions
MorphBearing(heap) ==
  {n \in SceneMeshes(heap) :
     geometryMap[heap[n].geometry].morphPositions > 0}

\* the meshes of the set, other than n, that use the material
UsersAmong(heap, meshes, n, material) ==
  {m \in meshes \ {n} : material \in Range(heap[m].material)}

\* setupMorphMaterials runs
MorphPass == pc = "morph" /\ pc' = "transform"

\* after the pass the material of the slot is flagged and no other mesh of
\* the scene uses it
FlaggedAndOwn(n, i) ==
  LET material == nodes'[n].material[i]
  IN /\ matHeap'[material].morphTargets
     /\ UsersAmong(nodes', SceneMeshes(nodes'), n, material) = {}

\* the pass puts a flagged clone of the material into the slot; the material
\* is unflagged after the pass and the sharers use it as before
ReplacedByClone(n, i, sharers) ==
  LET original == nodes[n].material[i]
      material == nodes'[n].material[i]
  IN /\ material > Len(matHeap)
     /\ matHeap'[material].cloneOf = original
     /\ matHeap'[material].morphTargets
     /\ ~matHeap'[original].morphTargets
     /\ \A m \in sharers : nodes'[m].material = nodes[m].material

\* the pass flags the material of the slot and makes no clone of it
FlaggedInPlace(n, i) ==
  LET original == nodes[n].material[i]
  IN /\ nodes'[n].material[i] = original
     /\ matHeap'[original].morphTargets
     /\ \A k \in DOMAIN matHeap' :
          k > Len(matHeap) => matHeap'[k].cloneOf # original

\* C19 as stated: after setupMorphMaterials every material of a mesh with
\* morph positions is flagged and used by no other mesh of the scene; a
\* material that was shared with another mesh is replaced by a flagged clone
\* while the original stays unflagged on the other mesh, and a material that
\* was not shared is flagged in place without a clone.
C19_Original ==
  [][MorphPass =>
       \A n \in MorphBearing(nodes) :
         \A i \in 1..Len(nodes[n].material) :
           LET sharers == UsersAmong(nodes, SceneMeshes(nodes), n,
                                     nodes[n].material[i])
           IN /\ FlaggedAndOwn(n, i)
              /\ IF sharers # {} THEN ReplacedByClone(n, i, sharers)
                 ELSE FlaggedInPlace(n, i)]_vars

\* C19: after setupMorphMaterials every material of a mesh with morph
\* positions is flagged and used by no other mesh of the scene; a material
\* that was shared with another mesh without morph positions is replaced by a
\* flagged clone while the original stays unflagged on that mesh, and a
\* material that was not shared is flagged in place without a clone.
C19_MorphMaterialIsolation ==
  [][MorphPass =>
       \A n \in MorphBearing(nodes) :
         \A i \in 1..Len(nodes[n].material) :
           LET original == nodes[n].material[i]
               sharers == UsersAmong(nodes, SceneMeshes(nodes), n, original)
               plain == UsersAmong(nodes, SceneMeshes(nodes)
                                          \ MorphBearing(nodes), n, original)
           IN /\ FlaggedAndOwn(n, i)
              /\ plain # {} => ReplacedByClone(n, i, plain)
              /\ sharers = {} => FlaggedInPlace(n, i)]_vars

\* mesh 1 with morph positions shared material 4 with mesh 2, which has no
\* morph positions, and used material 5 alone: after the pass it has a
\* flagged clone of 4 and the flagged 5, and mesh 2 has the unflagged 4
C19_Witness ==
  /\ Ran("setupMorphMaterials")
  /\ DOMAIN modelMap = {1, 2, 3}
  /\ DOMAIN materialMap = {4, 5}
  /\ geometryMap[11].morphPositions > 0
  /\ geometryMap[12].morphPositions = 0
  /\ Len(nodes[modelMap[1]].material) = 2
  /\ matHeap[nodes[modelMap[1]].material[1]].cloneOf = materialMap[4]
  /\ matHeap[nodes[modelMap[1]].material[1]].morphTargets
  /\ nodes[modelMap[1]].material[2] = materialMap[5]
  /\ matHeap[materialMap[5]].morphTargets
  /\ nodes[modelMap[2]].material = <<materialMap[4]>>
  /\ ~matHeap[materialMap[4]].morphTargets

\* the first stage ran before the second
RanBefore(first, second) ==
  \E i, j \in 1..Len(ran) : i < j /\ ran[i] = first /\ ran[j] = second

\* the nodes with transform data among the nodes of the scene graph
TransformNodesOf(heap) ==
  {n \in Range(Traverse(heap, sceneGraph)) : heap[n].transformData}

\* the transform pass has processed each node of the set once, each after
\* its parent and with the matrices of the parent it has
ProcessedTopDown(set) ==
  /\ \A n \in set : nodes[n].transformed \in 1..Cardinality(set)
  /\ \A n, m \in set : n # m => nodes[n].transformed # nodes[m].transformed
  /\ \A n \in set :
       /\ nodes[n].parent # Null
       /\ nodes[n].parentAtTransform = nodes[n].parent
       /\ nodes[nodes[n].parent].transformData =>
            /\ nodes[nodes[n].parent].transformed > 0
            /\ nodes[nodes[n].parent].transformed < nodes[n].transformed

\* the transform pass runs after hierarchy assembly, bindSkeleton,
\* createAmbientLight and setupMorphMaterials, and no node is transformed
\* before it
PassRunsLast ==
  /\ Ran("transform") =>
       /\ RanBefore("hierarchy", "bindSkeleton")
       /\ RanBefore("bindSkeleton", "createAmbientLight")
       /\ RanBefore("createAmbientLight", "setupMorphMaterials")
       /\ RanBefore("setupMorphMaterials", "transform")
  /\ ~Ran("transform") => \A n \in DOMAIN nodes : nodes[n].transformed = 0

\* C20 as stated: the transform pass runs after hierarchy assembly, skeleton
\* binding, ambient light and morph pass, and every node that carries
\* transform data is processed exactly once, after its parent, with its
\* parent's matrices as of that moment.
C20_Original ==
  /\ PassRunsLast
  /\ Ran("transform") =>
       ProcessedTopDown({n \in DOMAIN nodes : nodes[n].transformData})

\* C20: the transform pass runs after hierarchy assembly, skeleton binding,
\* ambient light and morph pass, and every node of the scene graph that
\* carries transform data is processed exactly once, after its parent, with
\* its parent's matrices as of that moment, so that its world matrix is
\* refreshed before any of its descendants is processed.
C20_TopDownTransform ==
  /\ PassRunsLast
  /\ Ran("transform") => ProcessedTopDown(TransformNodesOf(nodes))

\* model 1 below the scene root, model 2 below model 1 and model 3 below
\* model 2 have been processed in this order
C20_Witness ==
  /\ Ran("transform")
  /\ DOMAIN modelMap = {1, 2, 3}
  /\ nodes[modelMap[1]].parent = sceneGraph
  /\ nodes[modelMap[2]].parent = modelMap[1]
  /\ nodes[modelMap[3]].parent = modelMap[2]
  /\ nodes[modelMap[1]].transformed = 1
  /\ nodes[modelMap[2]].transformed = 2
  /\ nodes[modelMap[3]].transformed = 3

\* following parent links from the node reaches the scene root and visits
\* no node of the set seen, nor any node twice
RECURSIVE ReachesRoot(_, _)
ReachesRoot(n, seen) ==
  IF n = sceneGraph THEN TRUE
  ELSE IF n = Null \/ n \in seen THEN FALSE
  ELSE ReachesRoot(nodes[n].parent, seen \cup {n})

\* C21: after hierarchy assembly, for every connection graph, a model listed
\* as its own parent and two models listed as each other's parent included,
\* every registered node is reachable from the scene root by child links,
\* and its parent links lead to the scene root without revisiting a node.
C21_AllReachableFromRoot ==
  Assembled =>
    \A id \in DOMAIN modelMap :
      /\ modelMap[id] \in Range(Traverse(nodes, sceneGraph))
      /\ ReachesRoot(modelMap[id], {})

\* onLoad was invoked once, with the scene parse returned, and nothing else
LoadDelivered ==
  /\ loadCall.onLoadCalls = 1
  /\ loadCall.onLoadArg = result.scene
  /\ loadCall.onErrorCalls = 0
  /\ loadCall.consoleErrors = 0
  /\ loadCall.itemErrors = 0

\* onLoad was not invoked, the error parse threw went once to onError, or
\* once to the console when no onError was given, and manager.itemError was
\* called once
LoadFailed ==
  /\ loadCall.onLoadCalls = 0
  /\ IF loadCall.onError # "absent"
     THEN /\ loadCall.onErrorCalls = 1
          /\ loadCall.onErrorArg = result.error
          /\ loadCall.consoleErrors = 0
     ELSE /\ loadCall.onErrorCalls = 0
          /\ loadCall.consoleErrors = 1
  /\ loadCall.itemErrors = 1

\* C22: once the callback of a load call whose file was fetched has ended,
\* exactly one outcome has been delivered: onLoad once with the parsed scene
\* and no error report when parse returned, or, when parse threw, no onLoad,
\* the error once to onError (to the console without onError) and one call
\* of manager.itemError; before that nothing has been delivered.
C22_OneOutcome ==
  /\ loadCall.stage = "fetched" =>
       /\ loadCall.onLoadCalls = 0
       /\ loadCall.onErrorCalls = 0
       /\ loadCall.consoleErrors = 0
       /\ loadCall.itemErrors = 0
  /\ loadCall.stage \in {"returned", "threw"} =>
       IF pc = "done" THEN LoadDelivered ELSE LoadFailed

====
